---- MODULE Spec2Model ----
(***************************************************************************)
(* Model of the gobananas level editor: the frame loop (Root.Update), the  *)
(* input maps (Clicked, MouseClicked, MouseDrag), the editor sub-modes     *)
(* (Editor, PlatformEditor, ArtEditor, SaveAndLoadEditor, SelectEditor,    *)
(* Admin), the Typer widget, Level save/load/apply and the Selector.       *)
(*                                                                         *)
(* Numbers.  The program computes in float64 world units.  The model keeps *)
(* every world-valued quantity (the six matrix elements of a transform     *)
(* that maps the unit square to the world, points, drag deltas) as an      *)
(* integer number of ticks, one tick being one screen pixel of the default *)
(* camera: PxPerUnit ticks per world unit.  An input whose result is not a *)
(* whole number of ticks sets the field "over" and is left out of the      *)
(* enumeration of inputs, as is an input that would grow a collection      *)
(* beyond its bound.                                                       *)
(*                                                                         *)
(* One step of the specification is one display frame: the environment     *)
(* samples the keys, the mouse and the typed characters, and Root.Update   *)
(* runs to completion, nested Root.Update calls included.                  *)
(***************************************************************************)
EXTENDS Integers, Sequences, FiniteSets, TLC

\* ------------------------------------------------------------- bounds
MaxBlocks == 2
MaxArt == 2
MaxObjs == 4
MaxCmd == 2
WorldBound == 4
MaxExtent == 100
MaxFrames == 10

\* -------------------------------------------------- program constants
ScreenW == 720
ScreenH == 480
CamHH == 8
CamHW == (CamHH * ScreenW) \div ScreenH
PxPerUnit == ScreenW \div (2 * CamHW)
HandlePx == 10
RotatorPx == 25
SpawnPx == 20
DefaultBlockW == 100

autosave == <<"autosave.lvl">>

Keys == {"Enter", "Backspace", "Escape", "Meta", "S", "L", "A", "P", "R", "E", "C", "V"}
Chars == {"p"}

\* The embedded resources: the one image path that resources.Image can load.
GoodImages == {<<"p">>}

Ids == 1..MaxObjs
Nil == 0

RECURSIVE SeqsUpTo(_)
SeqsUpTo(n) ==
    IF n = 0 THEN {<<>>}
    ELSE LET S == SeqsUpTo(n - 1)
         IN  S \cup {Append(s, c) : s \in {x \in S : Len(x) = n - 1}, c \in Chars}

Paths == {autosave} \cup (SeqsUpTo(MaxCmd) \ {<<>>})

\* A local variable of the code: the value e under the name K gives it.
With(e, K(_)) == K(e)

Abs(x) == IF x < 0 THEN -x ELSE x
Min2(x, y) == IF x < y THEN x ELSE y
Max2(x, y) == IF x < y THEN y ELSE x
Divides(d, n) == Abs(n) % Abs(d) = 0
Quot(n, d) == IF (n < 0) = (d < 0) THEN Abs(n) \div Abs(d) ELSE -(Abs(n) \div Abs(d))

\* ---------------------------------------------------------- transform
\* ebiten.GeoM: x' = a*x + b*y + tx, y' = c*x + d*y + ty.  nf marks a matrix
\* holding a non-finite element (the result of a float division by zero).
MxIdentity == [a |-> PxPerUnit, b |-> 0, c |-> 0, d |-> PxPerUnit, tx |-> 0, ty |-> 0, nf |-> FALSE]

MxTranslate(m, dx, dy) == IF m.nf THEN m ELSE [m EXCEPT !.tx = @ + dx, !.ty = @ + dy]

\* Scale by the factors nx/den and ny/den.
MxScaleExact(m, nx, ny, den) ==
    /\ (m.a * nx) % den = 0 /\ (m.b * nx) % den = 0 /\ (m.tx * nx) % den = 0
    /\ (m.c * ny) % den = 0 /\ (m.d * ny) % den = 0 /\ (m.ty * ny) % den = 0

MxScale(m, nx, ny, den) ==
    [m EXCEPT !.a = (@ * nx) \div den, !.b = (@ * nx) \div den, !.tx = (@ * nx) \div den,
              !.c = (@ * ny) \div den, !.d = (@ * ny) \div den, !.ty = (@ * ny) \div den]

\* Rotate by the angle whose cosine and sine are cs and sn (a quarter turn
\* multiple: cs, sn in {-1, 0, 1}).
MxRotate(m, cs, sn) ==
    [m EXCEPT !.a = cs * m.a - sn * m.c, !.b = cs * m.b - sn * m.d, !.tx = cs * m.tx - sn * m.ty,
              !.c = sn * m.a + cs * m.c, !.d = sn * m.b + cs * m.d, !.ty = sn * m.tx + cs * m.ty]

MxDet(m) == m.a * m.d - m.b * m.c

\* Apply to the local point (x2/2, y2/2); the result is in half ticks.
MxApply2(m, x2, y2) == <<m.a * x2 + m.b * y2 + 2 * m.tx, m.c * x2 + m.d * y2 + 2 * m.ty>>

\* GeoM.Invert panics on a matrix whose determinant is zero.
MxInvertPanics(m) == ~m.nf /\ MxDet(m) = 0

\* A matrix with a non-finite element; every operation on it yields one.
MxNonFinite == [a |-> 0, b |-> 0, c |-> 0, d |-> 0, tx |-> 0, ty |-> 0, nf |-> TRUE]

\* math.Float64bits and binary.BigEndian.PutUint64: the eight bytes of an
\* element, the most significant first.  The sign is the top bit of the first
\* byte; a non-finite element has every exponent bit set.
NaNBytes == <<127, 248, 0, 0, 0, 0, 0, 0>>
PutUint64(v, nf) ==
    IF nf THEN NaNBytes
    ELSE <<IF v < 0 THEN 128 ELSE 0, 0, 0, 0,
           (Abs(v) \div 16777216) % 256, (Abs(v) \div 65536) % 256, (Abs(v) \div 256) % 256, Abs(v) % 256>>

\* binary.BigEndian.Uint64(bytes[off:]) and math.Float64frombits
Uint64NonFinite(bytes, off) == bytes[off + 1] % 128 = 127 /\ bytes[off + 2] >= 240
Uint64(bytes, off) ==
    (IF bytes[off + 1] >= 128 THEN -1 ELSE 1)
        * (((bytes[off + 5] * 256 + bytes[off + 6]) * 256 + bytes[off + 7]) * 256 + bytes[off + 8])

\* Mx.GobEncode: the elements (0,0), (0,1), (0,2), (1,0), (1,1), (1,2).
GobEncode(m) ==
    PutUint64(m.a, m.nf) \o PutUint64(m.b, m.nf) \o PutUint64(m.tx, m.nf)
        \o PutUint64(m.c, m.nf) \o PutUint64(m.d, m.nf) \o PutUint64(m.ty, m.nf)

\* Mx.GobDecode that reads the six numbers column by column.
GobDecode_ColumnMajor(bytes) ==
    IF \E i \in 0..5 : Uint64NonFinite(bytes, 8 * i) THEN MxNonFinite
    ELSE [a |-> Uint64(bytes, 8 * 0), c |-> Uint64(bytes, 8 * 1), b |-> Uint64(bytes, 8 * 2),
          d |-> Uint64(bytes, 8 * 3), tx |-> Uint64(bytes, 8 * 4), ty |-> Uint64(bytes, 8 * 5), nf |-> FALSE]

\* Mx.GobDecode
GobDecode(bytes) ==
    IF \E i \in 0..5 : Uint64NonFinite(bytes, 8 * i) THEN MxNonFinite
    ELSE [a |-> Uint64(bytes, 8 * 0), b |-> Uint64(bytes, 8 * 1), tx |-> Uint64(bytes, 8 * 2),
          c |-> Uint64(bytes, 8 * 3), d |-> Uint64(bytes, 8 * 4), ty |-> Uint64(bytes, 8 * 5), nf |-> FALSE]

\* ------------------------------------------------------------- level
NoPath == <<>>

\* box2d.B2Vec2; nf marks a non-finite coordinate.
Vec(x, y) == [X |-> x, Y |-> y, nf |-> FALSE]
NonFiniteVec == [X |-> 0, Y |-> 0, nf |-> TRUE]

NewLevel ==
    [Spawn |-> Vec(0, 0), Blocks |-> <<>>, Art |-> <<>>, BGAudio |-> NoPath,
     BGArt |-> NoPath, PlayerArt |-> NoPath, Triggers |-> {}]

FreeObj == [kind |-> "free", T |-> MxIdentity, Path |-> NoPath, img |-> FALSE]
BlockObj(m) == [kind |-> "block", T |-> m, Path |-> NoPath, img |-> FALSE]
ArtObj(m, path, img) == [kind |-> "art", T |-> m, Path |-> path, img |-> img]

EmptyHeap == [i \in Ids |-> FreeObj]

FreeIds(st) == {i \in Ids : st.heap[i].kind = "free"}
NewId(st) == IF FreeIds(st) = {} THEN Nil ELSE CHOOSE i \in FreeIds(st) : \A j \in FreeIds(st) : i <= j

\* Allocation of one object; a full heap is the model's bound, not the program's.
Alloc(st, obj) ==
    IF NewId(st) = Nil THEN [st EXCEPT !.over = TRUE]
    ELSE [st EXCEPT !.heap[NewId(st)] = obj]

\* ------------------------------------------------------- level files
NoFile == [kind |-> "none"]
CorruptFile == [kind |-> "corrupt"]

\* encoding/json on Mx: the embedded GeoM has no exported field and Mx has no
\* JSON marshaller, so a transform is written as the empty object ...
JsonEncodeMx(m) == "{}"
\* ... and decoding the empty object leaves the zero value, the identity.
JsonDecodeMx(j) == MxIdentity

LevelFile(st) ==
    [kind |-> "level",
     Spawn |-> st.l.Spawn,
     Blocks |-> [i \in 1..Len(st.l.Blocks) |-> JsonEncodeMx(st.heap[st.l.Blocks[i]].T)],
     Art |-> [i \in 1..Len(st.l.Art) |->
                 [T |-> JsonEncodeMx(st.heap[st.l.Art[i]].T), Path |-> st.heap[st.l.Art[i]].Path]],
     BGAudio |-> st.l.BGAudio, BGArt |-> st.l.BGArt, PlayerArt |-> st.l.PlayerArt,
     Triggers |-> st.l.Triggers]

\* A level file written by hand: its background art names a resource that does
\* not exist, so loading it fails after the blocks and the art were decoded.
SampleFile ==
    [kind |-> "level", Spawn |-> Vec(PxPerUnit, PxPerUnit), Blocks |-> <<"{}">>,
     Art |-> <<[T |-> "{}", Path |-> <<"p">>]>>,
     BGAudio |-> NoPath, BGArt |-> <<"p", "p">>, PlayerArt |-> NoPath, Triggers |-> {"jump"}]

Ev(st, e) == [st EXCEPT !.ev = @ \cup {e}]

\* Level.save whose failure ends the program.
save_Fatal(st, in, path) ==
    IF in.ioerr THEN Ev([st EXCEPT !.run = "exit"], <<"save_failed", path>>)
    ELSE Ev([st EXCEPT !.fs[path] = LevelFile(st)], <<"saved", path>>)

\* Level.save: a failed open leaves the file as it was.
save(st, in, path) ==
    IF in.ioerr THEN Ev(st, <<"save_failed", path>>)
    ELSE Ev([st EXCEPT !.fs[path] = LevelFile(st)], <<"saved", path>>)

RECURSIVE DecodeBlocks(_, _, _)
DecodeBlocks(st, js, i) ==
    IF i > Len(js) THEN st
    ELSE IF NewId(st) = Nil \/ Len(st.l.Blocks) >= MaxBlocks THEN [st EXCEPT !.over = TRUE]
    ELSE LET id == NewId(st)
         IN  DecodeBlocks([Alloc(st, BlockObj(JsonDecodeMx(js[i]))) EXCEPT !.l.Blocks = Append(@, id)],
                          js, i + 1)

RECURSIVE DecodeArt(_, _, _)
DecodeArt(st, js, i) ==
    IF i > Len(js) THEN st
    ELSE IF NewId(st) = Nil \/ Len(st.l.Art) >= MaxArt THEN [st EXCEPT !.over = TRUE]
    ELSE LET id == NewId(st)
         IN  DecodeArt([Alloc(st, ArtObj(JsonDecodeMx(js[i].T), js[i].Path, FALSE))
                            EXCEPT !.l.Art = Append(@, id)], js, i + 1)

\* The loop over l.Art of Level.load: loads each image in order and stops at the
\* first that fails.  Returns the state and whether an error was returned.
RECURSIVE LoadArt(_, _)
LoadArt(st, i) ==
    IF i > Len(st.l.Art) THEN [st |-> st, err |-> FALSE]
    ELSE IF st.heap[st.l.Art[i]].Path \in GoodImages
         THEN LoadArt([st EXCEPT !.heap[st.l.Art[i]].img = TRUE], i + 1)
         ELSE [st |-> st, err |-> TRUE]

ResourceOk(path) == path = NoPath \/ path \in GoodImages

\* Level.load.  The level is replaced by NewLevel() before the file is opened.
\* The objects of the replaced level are unreachable once it is replaced.
load(st, in, path) ==
    With([st EXCEPT !.l = NewLevel,
                    !.heap = [i \in Ids |-> IF i \in {st.l.Blocks[k] : k \in 1..Len(st.l.Blocks)}
                                                  \cup {st.l.Art[k] : k \in 1..Len(st.l.Art)}
                                            THEN FreeObj ELSE st.heap[i]]],
         LAMBDA s0 :
    With(st.fs[path], LAMBDA f :
        IF in.ioerr \/ f.kind = "none" THEN [st |-> s0, err |-> TRUE]
        ELSE IF f.kind = "corrupt" THEN [st |-> s0, err |-> TRUE]
        ELSE
    With(DecodeArt(DecodeBlocks([s0 EXCEPT !.l.Spawn = f.Spawn, !.l.BGAudio = f.BGAudio,
                                           !.l.BGArt = f.BGArt, !.l.PlayerArt = f.PlayerArt,
                                           !.l.Triggers = f.Triggers],
                                f.Blocks, 1), f.Art, 1),
         LAMBDA s2 :
        IF s2.over THEN [st |-> s2, err |-> FALSE]
        ELSE
    With(LoadArt(s2, 1), LAMBDA r3 :
        IF r3.err THEN r3
        ELSE IF ~ResourceOk(f.PlayerArt) THEN [st |-> r3.st, err |-> TRUE]
        ELSE IF ~ResourceOk(f.BGArt) THEN [st |-> r3.st, err |-> TRUE]
        ELSE IF ~ResourceOk(f.BGAudio) THEN [st |-> r3.st, err |-> TRUE]
        ELSE [st |-> r3.st, err |-> FALSE]))))

\* ------------------------------------------------------------- input
\* One frame's sample of the input source.  keys: ebiten.IsKeyPressed; left:
\* IsMouseButtonPressed(MouseButtonLeft); cur: CursorPosition in screen pixels;
\* chars: InputChars; tick: the autosave ticker fired since the last frame;
\* ioerr: opening a level file fails in this frame.
Pressed(in, k) == k \in in.keys

\* InputsUpdate.  The drag entry of a button is rewritten after it is deleted,
\* so once present it stays; its delta is read only in the frame that wrote it.
InputsUpdate(st, in) ==
    [st EXCEPT !.iframe = @ + 1,
               !.kdown = [k \in Keys |-> IF Pressed(in, k) THEN st.kdown[k] ELSE 0],
               !.mdown = IF in.left THEN @ ELSE 0,
               !.mdrag = IF @.has
                         THEN [has |-> TRUE, pos |-> in.cur,
                               delta |-> <<in.cur[1] - @.pos[1], in.cur[2] - @.pos[2]>>]
                         ELSE @]

\* Clicked: the value returned ...
ClickedVal(st, in, k) == Pressed(in, k) /\ (st.kdown[k] = st.iframe \/ st.kdown[k] = 0)
\* ... and the state it leaves (the frame in which the press was first polled).
ClickedSt(st, in, k) ==
    IF ~ClickedVal(st, in, k) THEN st
    ELSE Ev([st EXCEPT !.kdown[k] = st.iframe], <<"clicked", k>>)

MouseClickedVal(st, in) == in.left /\ (st.mdown = st.iframe \/ st.mdown = 0)
MouseClickedSt(st, in) ==
    IF ~MouseClickedVal(st, in) THEN st
    ELSE Ev([st EXCEPT !.mdown = st.iframe], <<"mouseclicked">>)

\* MouseDrag(MouseButtonLeft)
MouseDragVal(st, in) ==
    IF ~in.left THEN <<0, 0>>
    ELSE IF ~st.mdrag.has THEN <<0, 0>>
    ELSE st.mdrag.delta
MouseDragSt(st, in) ==
    IF in.left /\ ~st.mdrag.has
    THEN [st EXCEPT !.mdrag = [has |-> TRUE, pos |-> in.cur, delta |-> <<0, 0>>]]
    ELSE st

\* Camera.Cursor with the camera at the origin: world ticks, y up.
Cursor(in) == <<in.cur[1] - ScreenW \div 2, ScreenH \div 2 - in.cur[2]>>

\* ------------------------------------------------------------- typer
NewTyper(typ, placeholder) == [typ |-> typ, cmd |-> <<>>, Placeholder |-> placeholder]

\* The typing branch of Typer.Update: Backspace, then the typed characters.
TyperType(st, in) ==
    With(IF Len(st.t.cmd) > 0 THEN ClickedSt(st, in, "Backspace") ELSE st, LAMBDA s1 :
    With((IF Len(st.t.cmd) > 0 /\ ClickedVal(st, in, "Backspace")
          THEN SubSeq(s1.t.cmd, 1, Len(s1.t.cmd) - 1) ELSE s1.t.cmd) \o in.chars,
         LAMBDA c2 :
        [s1 EXCEPT !.t.cmd = c2, !.over = @ \/ Len(c2) > MaxCmd]))

\* Typer.Update that keeps the buffer when it returns the command.
TyperUpdate_KeepsText(st, in) ==
    With(ClickedSt(st, in, "Enter"), LAMBDA s1 :
        IF ClickedVal(st, in, "Enter") /\ ~s1.t.typ
        THEN [st |-> Ev(TyperType([s1 EXCEPT !.t.typ = TRUE], in), <<"typing">>), cmd |-> <<>>, typ |-> TRUE]
        ELSE IF ClickedVal(st, in, "Enter") /\ s1.t.typ
        THEN [st |-> Ev([s1 EXCEPT !.t.typ = FALSE], <<"submit", s1.t.cmd>>),
              cmd |-> s1.t.cmd, typ |-> FALSE]
        ELSE IF s1.t.typ
        THEN [st |-> Ev(TyperType(s1, in), <<"typing">>), cmd |-> <<>>, typ |-> TRUE]
        ELSE [st |-> s1, cmd |-> <<>>, typ |-> FALSE])

\* Typer.Update: the state it leaves, the completed command and whether the
\* typer is typing.
TyperUpdate(st, in) ==
    With(ClickedSt(st, in, "Enter"), LAMBDA s1 :
        IF ClickedVal(st, in, "Enter") /\ ~s1.t.typ
        THEN [st |-> Ev(TyperType([s1 EXCEPT !.t.typ = TRUE], in), <<"typing">>), cmd |-> <<>>, typ |-> TRUE]
        ELSE IF ClickedVal(st, in, "Enter") /\ s1.t.typ
        THEN [st |-> Ev([s1 EXCEPT !.t.typ = FALSE, !.t.cmd = <<>>], <<"submit", s1.t.cmd>>),
              cmd |-> s1.t.cmd, typ |-> FALSE]
        ELSE IF s1.t.typ
        THEN [st |-> Ev(TyperType(s1, in), <<"typing">>), cmd |-> <<>>, typ |-> TRUE]
        ELSE [st |-> s1, cmd |-> <<>>, typ |-> FALSE])

\* -------------------------------------------------------- activators
NoSel == [k |-> "nil", id |-> Nil]
SpawnSelector == [k |-> "spawn", id |-> Nil]
ArtSelector(id) == [k |-> "art", id |-> id]
BlockSelector(id) == [k |-> "block", id |-> id]

NoSelector == [s |-> NoSel, Selectables |-> <<>>, clipboard |-> NoSel, state |-> "selidle", scalar |-> 1]

\* Dropping the app that was active: its fields are unreachable.
DropApp(st) ==
    [st EXCEPT !.creating = Nil, !.cpin = <<0, 0>>, !.t = NewTyper(FALSE, "none"),
               !.load = FALSE, !.sel = NoSelector]

ActivatePlatform(st) == [DropApp(st) EXCEPT !.mode = "Platform"]
ActivateArt(st) == [DropApp(st) EXCEPT !.mode = "Art", !.t = NewTyper(FALSE, "prompt")]
ActivateSave(st) == [DropApp(st) EXCEPT !.mode = "SaveLoad", !.t = NewTyper(TRUE, "none"), !.load = FALSE]
ActivateLoad(st) == [DropApp(st) EXCEPT !.mode = "SaveLoad", !.t = NewTyper(TRUE, "none"), !.load = TRUE]

\* ActivateSelectEditor that lists every Block twice.
ActivateSelectEditor_BlocksTwice(st) ==
    [DropApp(st) EXCEPT
        !.mode = "Select",
        !.sel = [NoSelector EXCEPT
                    !.Selectables = <<SpawnSelector>>
                        \o [i \in 1..Len(st.l.Art) |-> ArtSelector(st.l.Art[i])]
                        \o [i \in 1..Len(st.l.Blocks) |-> BlockSelector(st.l.Blocks[i])]
                        \o [i \in 1..Len(st.l.Blocks) |-> BlockSelector(st.l.Blocks[i])]]]

ActivateSelectEditor(st) ==
    [DropApp(st) EXCEPT
        !.mode = "Select",
        !.sel = [NoSelector EXCEPT
                    !.Selectables = <<SpawnSelector>>
                        \o [i \in 1..Len(st.l.Art) |-> ArtSelector(st.l.Art[i])]
                        \o [i \in 1..Len(st.l.Blocks) |-> BlockSelector(st.l.Blocks[i])]]]

\* The subeditors table: key and activator, in table order.
subeditors == <<"L", "A", "S">>
Activate(st, i) ==
    CASE i = 1 -> ActivatePlatform(st)
      [] i = 2 -> ActivateArt(st)
      [] i = 3 -> ActivateSelectEditor(st)

\* -------------------------------------------------------------- game
\* The integer square root, by bisection: the largest r with r * r <= n.
RECURSIVE Bisect(_, _, _)
Bisect(n, lo, hi) ==
    IF hi - lo <= 1 THEN lo
    ELSE IF ((lo + hi) \div 2) * ((lo + hi) \div 2) <= n
    THEN Bisect(n, (lo + hi) \div 2, hi)
    ELSE Bisect(n, lo, (lo + hi) \div 2)
ISqrt(n) == Bisect(n, 0, Min2(n + 1, 46341))

\* The body and box made for one block by Level.apply: the centre in half
\* ticks, the full width and height in ticks, and the direction of the angle.
Entity(m) ==
    With(MxApply2(m, 0, 0), LAMBDA c :
    With(MxApply2(m, 1, 0), LAMBDA w :
    With(MxApply2(m, 0, 1), LAMBDA h :
        [c2 |-> c,
         w |-> ISqrt((w[1] - c[1]) * (w[1] - c[1]) + (w[2] - c[2]) * (w[2] - c[2])),
         h |-> ISqrt((h[1] - c[1]) * (h[1] - c[1]) + (h[2] - c[2]) * (h[2] - c[2])),
         ang |-> <<w[1] - c[1], w[2] - c[2]>>])))

NoGame == [spawn |-> Vec(0, 0), entities |-> <<>>, art |-> 0]

\* Level.apply that prepends each entity to the game's list.
apply_Prepends(st) ==
    [st EXCEPT !.game = [spawn |-> st.l.Spawn,
                         entities |-> [i \in 1..Len(st.l.Blocks) |->
                                          Entity(st.heap[st.l.Blocks[Len(st.l.Blocks) + 1 - i]].T)],
                         art |-> Len(st.l.Art)]]

\* Level.apply on a new Game
apply(st) ==
    [st EXCEPT !.game = [spawn |-> st.l.Spawn,
                         entities |-> [i \in 1..Len(st.l.Blocks) |-> Entity(st.heap[st.l.Blocks[i]].T)],
                         art |-> Len(st.l.Art)]]

\* NewEditor that keeps what a failed load left of the level.
NewEditor_KeepsFailedLoad(st, in) ==
    With([DropApp(st) EXCEPT !.mode = "Editor", !.autotimer = FALSE, !.game = NoGame,
                             !.l = NewLevel, !.heap = EmptyHeap],
         LAMBDA s0 :
    With(load(s0, in, autosave), LAMBDA r :
        Ev(r.st, <<"neweditor", IF r.err THEN "reset" ELSE "loaded">>)))

\* NewEditor: a new ticker, and the autosave file loaded into a new level; a
\* failed load resets the level to one default block.
NewEditor(st, in) ==
    With([DropApp(st) EXCEPT !.mode = "Editor", !.autotimer = FALSE, !.game = NoGame,
                             !.l = NewLevel, !.heap = EmptyHeap],
         LAMBDA s0 :
    With(load(s0, in, autosave), LAMBDA r :
        IF ~r.err THEN Ev(r.st, <<"neweditor", "loaded">>)
        ELSE Ev([s0 EXCEPT !.l.Blocks = <<1>>,
                           !.heap[1] = BlockObj(MxScale(MxIdentity, 2 * DefaultBlockW, 1, 2))],
                <<"neweditor", "reset">>)))

\* ----------------------------------------------------------- handlers
MaxNest == 12

RECURSIVE RootUpdate(_, _)
RECURSIVE EditorUpdate(_, _)

\* A handler entered below the first Root.Update of the frame.  A chain of
\* calls deeper than MaxNest is a chain that never returns: the goroutine's
\* stack overflows.
Enter(st, name) ==
    IF st.depth >= MaxNest THEN [st EXCEPT !.run = "overflow"]
    ELSE Ev([st EXCEPT !.depth = @ + 1], <<"call", name>>)

\* Admin.Update.  The game's own update does not touch the editor.
AdminUpdate(st0, in) ==
    With(Enter(st0, "Admin"), LAMBDA st :
        IF st.run # "running" THEN st
        ELSE IF ClickedVal(st, in, "E") THEN EditorUpdate(NewEditor(ClickedSt(st, in, "E"), in), in)
        ELSE ClickedSt(st, in, "E"))

\* The play branch of Editor.Update: a new game, the level applied, the
\* autosave written (a failure is printed), Admin made the active app.
Play(st, in) ==
    Ev([save(apply(st), in, autosave) EXCEPT !.mode = "Admin"], <<"play">>)

\* The loop over subeditors and the reset that follows it.
RECURSIVE SubEditors(_, _, _)
SubEditors(st, in, i) ==
    IF i > Len(subeditors)
    THEN IF ClickedVal(st, in, "R")
         THEN Ev([ClickedSt(st, in, "R") EXCEPT !.l = NewLevel], <<"reset">>)
         ELSE st
    ELSE IF ClickedVal(st, in, subeditors[i])
         THEN RootUpdate(Ev(Activate(ClickedSt(st, in, subeditors[i]), i), <<"activate", i>>), in)
         ELSE SubEditors(st, in, i + 1)

\* Editor.Update.  The wheel and the right mouse button are not exercised.
EditorUpdate(st0, in) ==
    With(Enter(st0, "Editor"), LAMBDA st :
        IF st.run # "running" THEN st
        ELSE
    With(IF st.autotimer THEN [save(st, in, autosave) EXCEPT !.autotimer = FALSE] ELSE st, LAMBDA s1 :
    With(ClickedSt(s1, in, "S"), LAMBDA s2 :
        IF ClickedVal(s1, in, "S") /\ Pressed(in, "Meta") THEN RootUpdate(ActivateSave(s2), in)
        ELSE
    With(ClickedSt(s2, in, "L"), LAMBDA s3 :
        IF ClickedVal(s2, in, "L") /\ Pressed(in, "Meta") THEN RootUpdate(ActivateLoad(s3), in)
        ELSE IF ClickedVal(s3, in, "P") THEN AdminUpdate(Play(ClickedSt(s3, in, "P"), in), in)
        ELSE SubEditors(ClickedSt(s3, in, "P"), in, 1)))))

\* PlatformEditor.Update that commits the block without waiting for the release.
PlatformEditorUpdate_CommitsWhileHeld(st, in) ==
    With(Cursor(in), LAMBDA w :
    With(IF st.creating = Nil THEN w ELSE st.cpin, LAMBDA pin :
    With([x |-> Min2(w[1], pin[1]), y |-> Min2(w[2], pin[2]),
          w |-> Max2(w[1], pin[1]) - Min2(w[1], pin[1]),
          h |-> Max2(w[2], pin[2]) - Min2(w[2], pin[2])],
         LAMBDA box :
    With(MxTranslate(MxIdentity, PxPerUnit \div 2, PxPerUnit \div 2), LAMBDA g1 :
    With(IF st.creating = Nil THEN NewId(st) ELSE st.creating, LAMBDA id :
    With(IF ~in.left THEN st
         ELSE IF id = Nil THEN [st EXCEPT !.over = TRUE]
         ELSE [st EXCEPT !.creating = id, !.cpin = pin,
                         !.heap[id] = BlockObj(MxTranslate(MxScale(g1, box.w, box.h, PxPerUnit), box.x, box.y)),
                         !.over = @ \/ ~MxScaleExact(g1, box.w, box.h, PxPerUnit)],
         LAMBDA s1 :
        IF s1.creating # Nil
        THEN EditorUpdate(Ev([s1 EXCEPT !.l.Blocks = Append(@, s1.creating), !.creating = Nil,
                                        !.over = @ \/ Len(s1.l.Blocks) >= MaxBlocks],
                             <<"commit", s1.creating>>), in)
        ELSE EditorUpdate(s1, in)))))))

\* PlatformEditor.Update without geo.Translate(0.5, 0.5): the unit square is
\* scaled about its centre.
PlatformEditorUpdate_NoHalfShift(st, in) ==
    With(Cursor(in), LAMBDA w :
    With(IF st.creating = Nil THEN w ELSE st.cpin, LAMBDA pin :
    With([x |-> Min2(w[1], pin[1]), y |-> Min2(w[2], pin[2]),
          w |-> Max2(w[1], pin[1]) - Min2(w[1], pin[1]),
          h |-> Max2(w[2], pin[2]) - Min2(w[2], pin[2])],
         LAMBDA box :
    With(MxIdentity, LAMBDA g1 :
    With(IF st.creating = Nil THEN NewId(st) ELSE st.creating, LAMBDA id :
    With(IF ~in.left THEN st
         ELSE IF id = Nil THEN [st EXCEPT !.over = TRUE]
         ELSE [st EXCEPT !.creating = id, !.cpin = pin,
                         !.heap[id] = BlockObj(MxTranslate(MxScale(g1, box.w, box.h, PxPerUnit), box.x, box.y)),
                         !.over = @ \/ ~MxScaleExact(g1, box.w, box.h, PxPerUnit)],
         LAMBDA s1 :
        IF ~in.left /\ s1.creating # Nil
        THEN EditorUpdate(Ev([s1 EXCEPT !.l.Blocks = Append(@, s1.creating), !.creating = Nil,
                                        !.over = @ \/ Len(s1.l.Blocks) >= MaxBlocks],
                             <<"commit", s1.creating>>), in)
        ELSE EditorUpdate(s1, in)))))))

\* PlatformEditor.Update
PlatformEditorUpdate(st, in) ==
    With(Cursor(in), LAMBDA w :
    With(IF st.creating = Nil THEN w ELSE st.cpin, LAMBDA pin :
    With([x |-> Min2(w[1], pin[1]), y |-> Min2(w[2], pin[2]),
          w |-> Max2(w[1], pin[1]) - Min2(w[1], pin[1]),
          h |-> Max2(w[2], pin[2]) - Min2(w[2], pin[2])],
         LAMBDA box :
    With(MxTranslate(MxIdentity, PxPerUnit \div 2, PxPerUnit \div 2), LAMBDA g1 :
    With(IF st.creating = Nil THEN NewId(st) ELSE st.creating, LAMBDA id :
    With(IF ~in.left THEN st
         ELSE IF id = Nil THEN [st EXCEPT !.over = TRUE]
         ELSE [st EXCEPT !.creating = id, !.cpin = pin,
                         !.heap[id] = BlockObj(MxTranslate(MxScale(g1, box.w, box.h, PxPerUnit), box.x, box.y)),
                         !.over = @ \/ ~MxScaleExact(g1, box.w, box.h, PxPerUnit)],
         LAMBDA s1 :
        IF ~in.left /\ s1.creating # Nil
        THEN EditorUpdate(Ev([s1 EXCEPT !.l.Blocks = Append(@, s1.creating), !.creating = Nil,
                                        !.over = @ \/ Len(s1.l.Blocks) >= MaxBlocks],
                             <<"commit", s1.creating>>), in)
        ELSE EditorUpdate(s1, in)))))))

\* ArtEditor.AddImage that appends the Art before it knows the image loads.
AddImage_AppendsFirst(st, path) ==
    IF NewId(st) = Nil \/ Len(st.l.Art) >= MaxArt THEN [st |-> [st EXCEPT !.over = TRUE], err |-> FALSE]
    ELSE [st |-> [Alloc(st, ArtObj(MxIdentity, path, path \in GoodImages)) EXCEPT !.l.Art = Append(@, NewId(st))],
          err |-> path \notin GoodImages]

\* ArtEditor.AddImage
AddImage(st, path) ==
    IF path \notin GoodImages THEN [st |-> st, err |-> TRUE]
    ELSE IF NewId(st) = Nil \/ Len(st.l.Art) >= MaxArt THEN [st |-> [st EXCEPT !.over = TRUE], err |-> FALSE]
    ELSE [st |-> [Alloc(st, ArtObj(MxIdentity, path, TRUE)) EXCEPT !.l.Art = Append(@, NewId(st))],
          err |-> FALSE]

\* ArtEditor.Update without the return while the typer is typing.
ArtEditorUpdate_KeysWhileTyping(st, in) ==
    With(TyperUpdate(st, in), LAMBDA r :
        IF r.cmd # <<>>
        THEN With(AddImage(r.st, r.cmd), LAMBDA a :
                 EditorUpdate(Ev([a.st EXCEPT !.t.Placeholder = IF a.err THEN "failed" ELSE "loaded"],
                                 <<"addimage", r.cmd, a.err>>), in))
        ELSE EditorUpdate(r.st, in))

\* ArtEditor.Update without the test for an empty command.
ArtEditorUpdate_NoEmptyTest(st, in) ==
    With(TyperUpdate(st, in), LAMBDA r :
        IF r.typ THEN r.st
        ELSE With(AddImage(r.st, r.cmd), LAMBDA a :
                 EditorUpdate(Ev([a.st EXCEPT !.t.Placeholder = IF a.err THEN "failed" ELSE "loaded"],
                                 <<"addimage", r.cmd, a.err>>), in)))

\* ArtEditor.Update
ArtEditorUpdate(st, in) ==
    With(TyperUpdate(st, in), LAMBDA r :
        IF r.typ THEN r.st
        ELSE IF r.cmd # <<>>
        THEN With(AddImage(r.st, r.cmd), LAMBDA a :
                 EditorUpdate(Ev([a.st EXCEPT !.t.Placeholder = IF a.err THEN "failed" ELSE "loaded"],
                                 <<"addimage", r.cmd, a.err>>), in))
        ELSE EditorUpdate(r.st, in))

\* SaveAndLoadEditor.Update without the return while the typer is typing.
SaveAndLoadEditorUpdate_KeysWhileTyping(st, in) ==
    With(TyperUpdate(st, in), LAMBDA r :
        IF r.cmd # <<>>
        THEN IF r.st.load
             THEN With(load(r.st, in, r.cmd), LAMBDA ld :
                      IF ld.err
                      THEN Ev([ld.st EXCEPT !.run = "exit"], <<"load_failed", r.cmd>>)
                      ELSE RootUpdate(Ev([DropApp(ld.st) EXCEPT !.mode = "Editor"], <<"loaded", r.cmd>>), in))
             ELSE RootUpdate([DropApp(Ev(save(r.st, in, r.cmd), <<"tool_save", r.cmd>>))
                                  EXCEPT !.mode = "Editor"], in)
        ELSE EditorUpdate(r.st, in))

\* SaveAndLoadEditor.Update
SaveAndLoadEditorUpdate(st, in) ==
    With(TyperUpdate(st, in), LAMBDA r :
        IF r.typ THEN r.st
        ELSE IF r.cmd # <<>>
        THEN IF r.st.load
             THEN With(load(r.st, in, r.cmd), LAMBDA ld :
                      IF ld.err
                      THEN Ev([ld.st EXCEPT !.run = "exit"], <<"load_failed", r.cmd>>)
                      ELSE RootUpdate(Ev([DropApp(ld.st) EXCEPT !.mode = "Editor"], <<"loaded", r.cmd>>), in))
             ELSE RootUpdate([DropApp(Ev(save(r.st, in, r.cmd), <<"tool_save", r.cmd>>))
                                  EXCEPT !.mode = "Editor"], in)
        ELSE EditorUpdate(r.st, in))

\* ----------------------------------------------------------- selector
Sign(x) == IF x > 0 THEN 1 ELSE IF x < 0 THEN -1 ELSE 0

\* Selector.hit with the open interval: the edges of the square are outside.
HitVal_Open(pt, m) ==
    /\ ~m.nf
    /\ 2 * Abs(m.d * (pt[1] - m.tx) - m.b * (pt[2] - m.ty)) < Abs(MxDet(m))
    /\ 2 * Abs(m.a * (pt[2] - m.ty) - m.c * (pt[1] - m.tx)) < Abs(MxDet(m))

\* Selector.hit when Invert does not panic: the point pt (world ticks) lies in
\* the image of the unit square under m.  Comparisons with NaN are false.
HitVal(pt, m) ==
    /\ ~m.nf
    /\ 2 * Abs(m.d * (pt[1] - m.tx) - m.b * (pt[2] - m.ty)) <= Abs(MxDet(m))
    /\ 2 * Abs(m.a * (pt[2] - m.ty) - m.c * (pt[1] - m.tx)) <= Abs(MxDet(m))

\* SpawnSelector.Transform, ArtSelector.Transform, BlockSelector.Transform
Transform(st, se) ==
    IF se.k = "spawn"
    THEN IF st.l.Spawn.nf THEN MxNonFinite
         ELSE MxTranslate(MxScale(MxIdentity, SpawnPx, SpawnPx, PxPerUnit), st.l.Spawn.X, st.l.Spawn.Y)
    ELSE st.heap[se.id].T

\* SetTransform of an Art or Block that stores the translation in the Spawn
\* as well, as the Spawn's own adapter does.
SetTransform_MovesSpawn(st, se, m) ==
    IF se.k = "spawn"
    THEN [st EXCEPT !.l.Spawn = IF m.nf THEN NonFiniteVec ELSE Vec(m.tx, m.ty)]
    ELSE [st EXCEPT !.heap[se.id].T = m, !.l.Spawn = IF m.nf THEN NonFiniteVec ELSE Vec(m.tx, m.ty)]

\* SpawnSelector.SetTransform, ArtSelector.SetTransform, BlockSelector.SetTransform
SetTransform(st, se, m) ==
    IF se.k = "spawn"
    THEN [st EXCEPT !.l.Spawn = IF m.nf THEN NonFiniteVec ELSE Vec(m.tx, m.ty)]
    ELSE [st EXCEPT !.heap[se.id].T = m]

\* The up vector of rotator(), normalised; (0, 0) stays (0, 0).
UpExact(m) == m.b = 0 \/ m.d = 0
Up(m) == <<Sign(m.b), Sign(m.d)>>

\* A handle: a square of HandlePx pixels centred at c2 (half ticks); nf when
\* the transform it is computed from is not finite.
Handle(c2, nf) == [c2 |-> c2, nf |-> nf]
HitHandle(pt, h) ==
    /\ ~h.nf
    /\ Abs(2 * pt[1] - h.c2[1]) <= HandlePx
    /\ Abs(2 * pt[2] - h.c2[2]) <= HandlePx

\* Selector.rotator: RotatorPx pixels above the middle of the top edge.
rotator(st) ==
    With(Transform(st, st.sel.s), LAMBDA t :
    With(MxApply2(t, 0, 1), LAMBDA p :
        Handle(<<p[1] + 2 * RotatorPx * Up(t)[1], p[2] + 2 * RotatorPx * Up(t)[2]>>, t.nf)))

\* Selector.scalars: the four corners, in the order of the positions table.
positions == <<<<1, 1>>, <<-1, 1>>, <<1, -1>>, <<-1, -1>>>>
scalars(st) ==
    With(Transform(st, st.sel.s), LAMBDA t :
        [i \in 1..4 |-> Handle(MxApply2(t, positions[i][1], positions[i][2]), t.nf)])

Index(seq, x) ==
    IF \E i \in 1..Len(seq) : seq[i] = x
    THEN CHOOSE i \in 1..Len(seq) : seq[i] = x /\ \A j \in 1..(i - 1) : seq[j] # x
    ELSE -1

Remove(seq, i) == SubSeq(seq, 1, i - 1) \o SubSeq(seq, i + 1, Len(seq))

\* ArtSelector.Delete, BlockSelector.Delete: slicing with found = -1 panics.
DeleteFrom(seq, id) == Remove(seq, Index(seq, id))

Delete(st, se) ==
    With(IF se.k = "art" THEN st.l.Art ELSE st.l.Blocks, LAMBDA list :
        IF Index(list, se.id) = -1
        THEN Ev([st EXCEPT !.run = "panic"], <<"delete_panic", se>>)
        ELSE With(DeleteFrom(list, se.id), LAMBDA after :
                 Ev(IF se.k = "art" THEN [st EXCEPT !.l.Art = after] ELSE [st EXCEPT !.l.Blocks = after],
                    <<"delete", se, list, after>>)))

\* Paste that hands out the copied object itself instead of a copy.
PasteId_Shared(st, se) == se.id

\* ArtSelector.Paste, BlockSelector.Paste: the object the copy is stored in.
PasteId(st, se) == NewId(st)

Paste(st, se) ==
    With(PasteId(st, se), LAMBDA id :
    With(IF se.k = "art" THEN st.l.Art ELSE st.l.Blocks, LAMBDA list :
        IF id = Nil \/ Len(list) >= (IF se.k = "art" THEN MaxArt ELSE MaxBlocks)
        THEN [st EXCEPT !.over = TRUE]
        ELSE
    With([k |-> se.k, id |-> id], LAMBDA new :
    With(IF se.k = "art" THEN [st EXCEPT !.heap[id] = st.heap[se.id], !.l.Art = Append(@, id)]
         ELSE [st EXCEPT !.heap[id] = st.heap[se.id], !.l.Blocks = Append(@, id)],
         LAMBDA s2 :
        Ev([s2 EXCEPT !.sel.s = new, !.sel.Selectables = Append(@, new)],
           <<"paste", se, new, list, IF se.k = "art" THEN s2.l.Art ELSE s2.l.Blocks>>)))))

\* Deletable that the Spawn adapter satisfies too.
Deletable_WithSpawn(se) == se.k \in {"art", "block", "spawn"}

Deletable(se) == se.k \in {"art", "block"}
Copyable(se) == se.k \in {"art", "block"}

\* The keyboard part of Selector.Update: delete, copy, paste.
SelectorKeys(st, in) ==
    With(IF st.sel.s # NoSel THEN ClickedSt(st, in, "Backspace") ELSE st, LAMBDA s1 :
    With(IF st.sel.s # NoSel /\ ClickedVal(st, in, "Backspace") /\ Deletable(s1.sel.s)
         THEN Delete([s1 EXCEPT !.sel.s = NoSel], s1.sel.s) ELSE s1,
         LAMBDA s2 :
        IF s2.run # "running" THEN s2
        ELSE
    With(IF s2.sel.s # NoSel THEN ClickedSt(s2, in, "C") ELSE s2, LAMBDA s3 :
    With(IF s2.sel.s # NoSel /\ ClickedVal(s2, in, "C") /\ Pressed(in, "Meta") /\ Copyable(s3.sel.s)
         THEN Ev([s3 EXCEPT !.sel.clipboard = s3.sel.s], <<"copy", s3.sel.s>>) ELSE s3,
         LAMBDA s4 :
    With(IF s4.sel.clipboard # NoSel THEN ClickedSt(s4, in, "V") ELSE s4, LAMBDA s5 :
        IF s4.sel.clipboard # NoSel /\ ClickedVal(s4, in, "V") /\ Pressed(in, "Meta")
        THEN Paste(s5, s5.sel.clipboard) ELSE s5)))))

\* The square of the bounding diagonal compared by the selection loop.
Diagonal(m) == (m.a + m.b) * (m.a + m.b) + (m.c + m.d) * (m.c + m.d)

\* The loop over Selectables on a press: the first selectable of the smallest
\* diagonal among those hit; hit panics on a singular transform.  best = 0:
\* none yet.
RECURSIVE Pick(_, _, _, _)
Pick(st, pt, i, best) ==
    IF i > Len(st.sel.Selectables) THEN [panic |-> FALSE, best |-> best]
    ELSE With(Transform(st, st.sel.Selectables[i]), LAMBDA m :
             IF MxInvertPanics(m) THEN [panic |-> TRUE, best |-> best]
             ELSE IF HitVal(pt, m)
                     /\ (best = 0 \/ Diagonal(m) < Diagonal(Transform(st, st.sel.Selectables[best])))
             THEN Pick(st, pt, i + 1, i)
             ELSE Pick(st, pt, i + 1, best))

Panic(st, what) == Ev([st EXCEPT !.run = "panic"], <<"panic", what>>)

\* The first scale handle hit, 0 when none is.
ScalarHit(st, pt) ==
    With(scalars(st), LAMBDA hs :
        IF \E i \in 1..4 : HitHandle(pt, hs[i])
        THEN CHOOSE i \in 1..4 : HitHandle(pt, hs[i]) /\ \A j \in 1..(i - 1) : ~HitHandle(pt, hs[j])
        ELSE 0)

\* The press branch that searches the selectables on every press, whether
\* the current selection is under the cursor or not.
SelectorPress_AlwaysSearches(st, in) ==
    With(Cursor(in), LAMBDA pt :
    With(Pick(st, pt, 1, 0), LAMBDA pk :
        IF pk.panic THEN Panic([st EXCEPT !.sel.s = NoSel], "hit")
        ELSE
    With([st EXCEPT !.sel.s = IF pk.best = 0 THEN NoSel ELSE st.sel.Selectables[pk.best]], LAMBDA s1 :
        IF s1.sel.s = NoSel THEN Ev(s1, <<"miss">>)
        ELSE
    With(ScalarHit(s1, pt), LAMBDA sc :
        Ev([s1 EXCEPT !.sel.state = IF sc # 0 THEN "selscaling"
                                    ELSE IF HitHandle(pt, rotator(s1)) THEN "selrotating"
                                    ELSE "selmoving",
                      !.sel.scalar = IF sc # 0 THEN sc ELSE @,
                      !.over = @ \/ ~UpExact(Transform(s1, s1.sel.s))],
           <<"select", s1.sel.s>>)))))

\* The press branch of Selector.Update (MouseClicked returned true).
SelectorPress(st, in) ==
    With(Cursor(in), LAMBDA pt :
    With(Transform(st, st.sel.s), LAMBDA tcur :
        IF st.sel.s # NoSel /\ MxInvertPanics(tcur) THEN Panic(st, "hit")
        ELSE
    With(st.sel.s # NoSel /\ (HitVal(pt, tcur) \/ HitHandle(pt, rotator(st))), LAMBDA keep :
    With(Pick(st, pt, 1, 0), LAMBDA pk :
        IF ~keep /\ pk.panic THEN Panic([st EXCEPT !.sel.s = NoSel], "hit")
        ELSE
    With(IF keep THEN st
         ELSE [st EXCEPT !.sel.s = IF pk.best = 0 THEN NoSel ELSE st.sel.Selectables[pk.best]],
         LAMBDA s1 :
        IF s1.sel.s = NoSel THEN Ev(s1, <<"miss">>)
        ELSE
    With(ScalarHit(s1, pt), LAMBDA sc :
        Ev([s1 EXCEPT !.sel.state = IF sc # 0 THEN "selscaling"
                                    ELSE IF HitHandle(pt, rotator(s1)) THEN "selrotating"
                                    ELSE "selmoving",
                      !.sel.scalar = IF sc # 0 THEN sc ELSE @,
                      !.over = @ \/ ~UpExact(Transform(s1, s1.sel.s))],
           <<"select", s1.sel.s>>)))))))

\* The rotating case: the rotation that takes the direction of the up vector
\* to the direction from the centre to the cursor, about the centre.
Dir(v) == IF v = <<0, 0>> THEN <<1, 0>> ELSE v
RotateStep(st, in) ==
    With(Transform(st, st.sel.s), LAMBDA t :
        IF t.nf THEN SetTransform(st, st.sel.s, MxNonFinite)
        ELSE
    With(Dir(<<t.b, t.d>>), LAMBDA u :
    With(Dir(<<Cursor(in)[1] - t.tx, Cursor(in)[2] - t.ty>>), LAMBDA v :
    With(u[1] * v[1] + u[2] * v[2], LAMBDA dot :
    With(u[1] * v[2] - u[2] * v[1], LAMBDA cross :
        IF dot # 0 /\ cross # 0 THEN [st EXCEPT !.over = TRUE]
        ELSE
    With(MxRotate([t EXCEPT !.tx = 0, !.ty = 0],
                  IF cross = 0 THEN Sign(dot) ELSE 0, IF dot = 0 THEN Sign(cross) ELSE 0),
         LAMBDA lin :
        Ev(SetTransform(st, st.sel.s, [lin EXCEPT !.tx = t.tx, !.ty = t.ty]), <<"rotate", st.sel.s>>)))))))

\* The moving case without the change of sign between screen y and world y.
MoveStep_ScreenY(st, in) ==
    With(MouseDragVal(st, in), LAMBDA d :
    With(MouseDragSt(st, in), LAMBDA s1 :
        Ev(SetTransform(s1, s1.sel.s, MxTranslate(Transform(s1, s1.sel.s), d[1], d[2])),
           <<"move", s1.sel.s>>)))

\* The moving case: the drag delta in pixels converted to world ticks.
MoveStep(st, in) ==
    With(MouseDragVal(st, in), LAMBDA d :
    With(MouseDragSt(st, in), LAMBDA s1 :
        Ev(SetTransform(s1, s1.sel.s, MxTranslate(Transform(s1, s1.sel.s), d[1], -d[2])),
           <<"move", s1.sel.s>>)))

\* The scaling case: the ratios (handle - centre) / (cursor - centre), per
\* axis, multiplied onto the transform; a zero denominator gives Inf or NaN.
ScaleStep(st, in) ==
    With(Transform(st, st.sel.s), LAMBDA t :
    With(positions[st.sel.scalar], LAMBDA p :
    With(t.a * p[1] + t.b * p[2], LAMBDA nx2 :
    With(t.c * p[1] + t.d * p[2], LAMBDA ny2 :
    With(2 * (Cursor(in)[1] - t.tx), LAMBDA dx2 :
    With(2 * (Cursor(in)[2] - t.ty), LAMBDA dy2 :
        IF t.nf \/ dx2 = 0 \/ dy2 = 0
        THEN Ev(SetTransform(st, st.sel.s, MxNonFinite), <<"scale", st.sel.s>>)
        ELSE IF ~(/\ Divides(dx2, t.a * nx2) /\ Divides(dx2, t.c * nx2)
                  /\ Divides(dy2, t.b * ny2) /\ Divides(dy2, t.d * ny2))
        THEN [st EXCEPT !.over = TRUE]
        ELSE Ev(SetTransform(st, st.sel.s,
                             [t EXCEPT !.a = Quot(t.a * nx2, dx2), !.c = Quot(t.c * nx2, dx2),
                                       !.b = Quot(t.b * ny2, dy2), !.d = Quot(t.d * ny2, dy2)]),
                <<"scale", st.sel.s>>)))))))

\* The drag part of Selector.Update: the switch on the state.
SelectorDrag(st, in) ==
    IF st.run # "running" \/ st.sel.s = NoSel THEN st
    ELSE CASE st.sel.state = "selrotating" -> RotateStep(st, in)
           [] st.sel.state = "selmoving" -> MoveStep(st, in)
           [] st.sel.state = "selscaling" -> ScaleStep(st, in)
           [] OTHER -> st

\* Selector.Update that leaves the state as it is when the button is up.
SelectorUpdate_NoIdle(st, in) ==
    With(SelectorKeys(st, in), LAMBDA s1 :
        IF s1.run # "running" \/ s1.over THEN s1
        ELSE IF ~in.left THEN s1
        ELSE IF ~MouseClickedVal(s1, in) THEN SelectorDrag(s1, in)
        ELSE
    With(SelectorPress(MouseClickedSt(s1, in), in), LAMBDA s2 :
        IF s2.sel.s = NoSel THEN s2 ELSE SelectorDrag(s2, in)))

\* Selector.Update
SelectorUpdate(st, in) ==
    With(SelectorKeys(st, in), LAMBDA s1 :
        IF s1.run # "running" \/ s1.over THEN s1
        ELSE IF ~in.left THEN [s1 EXCEPT !.sel.state = "selidle"]
        ELSE IF ~MouseClickedVal(s1, in) THEN SelectorDrag(s1, in)
        ELSE
    With(SelectorPress(MouseClickedSt(s1, in), in), LAMBDA s2 :
        IF s2.sel.s = NoSel THEN s2 ELSE SelectorDrag(s2, in)))

\* SelectEditor.Update
SelectEditorUpdate(st, in) ==
    With(SelectorUpdate(st, in), LAMBDA s1 :
        IF s1.run # "running" THEN s1 ELSE EditorUpdate(s1, in))

\* Root.Update
RootUpdate(st0, in) ==
    With(Enter(st0, "Root"), LAMBDA st :
        IF st.run # "running" THEN st
        ELSE
    With(InputsUpdate(st, in), LAMBDA s1 :
        IF Pressed(in, "Escape") THEN Ev([s1 EXCEPT !.run = "exit"], <<"escape">>)
        ELSE CASE s1.mode = "Editor" -> EditorUpdate(s1, in)
               [] s1.mode = "Platform" -> PlatformEditorUpdate(s1, in)
               [] s1.mode = "Art" -> ArtEditorUpdate(s1, in)
               [] s1.mode = "SaveLoad" -> SaveAndLoadEditorUpdate(s1, in)
               [] s1.mode = "Select" -> SelectEditorUpdate(s1, in)
               [] s1.mode = "Admin" -> AdminUpdate(s1, in)))

\* ------------------------------------------------------ specification
VARIABLES
    mode,       \* the app Root holds: Editor, Platform, Art, SaveLoad, Select, Admin
    l,          \* Editor.l, the level
    heap,       \* the Block and Art objects the level and the selectors point to
    typer,      \* the Typer of the Art editor or of the Save/Load tool
    isload,     \* SaveAndLoadEditor.load
    creating,   \* PlatformEditor.creating
    cpin,       \* PlatformEditor.cpinx, cpiny
    sel,        \* SelectEditor.s, the Selector
    autotimer,  \* a tick is waiting in Editor.autotimer.C
    game,       \* Admin.g
    kdown,      \* the keys in kdown
    mdown,      \* the left button is in mdown
    mdrag,      \* mdrag of the left button
    fs,         \* the level files on disk
    run,        \* running, exit (Update returned an error), panic, overflow
    iframe,     \* the frame counter of InputsUpdate
    keys        \* the keys that were held when the last frame was sampled

vars == <<mode, l, heap, typer, isload, creating, cpin, sel, autotimer, game, kdown, mdown, mdrag, fs,
          run, iframe, keys>>

Input(k, left, cur, chars, tick, ioerr) ==
    [keys |-> k, left |-> left, cur |-> cur, chars |-> chars, tick |-> tick, ioerr |-> ioerr]

\* The state the frame starts in.  The program only tests the frame number
\* recorded for a key or a button for equality with iframe, after iframe has
\* grown, so kdown and mdown keep 1 for every number recorded in an earlier
\* frame.  ev, depth and over are the record of the frame, empty when it starts.
Cur ==
    [mode |-> mode, l |-> l, heap |-> heap, t |-> typer, load |-> isload, creating |-> creating,
     cpin |-> cpin, sel |-> sel, autotimer |-> autotimer, game |-> game,
     kdown |-> [k \in Keys |-> IF kdown[k] = 1 THEN iframe ELSE 0],
     mdown |-> IF mdown = 1 THEN iframe ELSE 0,
     mdrag |-> [has |-> mdrag.has, pos |-> mdrag.pos, delta |-> <<0, 0>>],
     fs |-> fs, run |-> run, ev |-> {}, iframe |-> iframe, depth |-> 0, over |-> FALSE]

\* The objects still pointed to when the frame ends.
Roots(st) ==
    {st.l.Blocks[i] : i \in 1..Len(st.l.Blocks)} \cup {st.l.Art[i] : i \in 1..Len(st.l.Art)}
    \cup {st.creating, st.sel.s.id, st.sel.clipboard.id}
    \cup {st.sel.Selectables[i].id : i \in 1..Len(st.sel.Selectables)}

Collect(st) == [i \in Ids |-> IF i \in Roots(st) THEN st.heap[i] ELSE FreeObj]

\* Every transform lies in the window of the world the model covers.
InWindow(st) ==
    \A i \in Ids : st.heap[i].kind # "free" =>
        /\ \A f \in {"tx", "ty"} : Abs(st.heap[i].T[f]) <= WorldBound * PxPerUnit
        /\ \A f \in {"a", "b", "c", "d"} : Abs(st.heap[i].T[f]) <= MaxExtent * PxPerUnit

\* The frame: the ticker may have fired, then Root.Update runs.
Start(in) == [Cur EXCEPT !.autotimer = @ \/ (in.tick /\ mode # "Admin")]
Step(in) == RootUpdate(Start(in), in)

\* The inputs of the enumeration that the model covers in the current state.
Covered(r) ==
    ~r.over /\ InWindow(r) /\ Abs(r.l.Spawn.X) <= WorldBound * PxPerUnit /\ Abs(r.l.Spawn.Y) <= WorldBound * PxPerUnit

Frame(in) ==
    /\ run = "running"
    /\ iframe < MaxFrames
    /\ \E r \in {Step(in)} :
           /\ Covered(r)
           /\ mode' = r.mode
           /\ l' = r.l
           /\ heap' = Collect(r)
           /\ typer' = r.t
           /\ isload' = r.load
           /\ creating' = r.creating
           /\ cpin' = IF r.creating = Nil THEN <<0, 0>> ELSE r.cpin
           /\ sel' = IF r.sel.state = "selscaling" THEN r.sel ELSE [r.sel EXCEPT !.scalar = 1]
           /\ autotimer' = r.autotimer
           /\ game' = r.game
           /\ kdown' = [k \in Keys |-> IF r.kdown[k] > 0 THEN 1 ELSE 0]
           /\ mdown' = IF r.mdown > 0 THEN 1 ELSE 0
           /\ mdrag' = [has |-> r.mdrag.has, pos |-> r.mdrag.pos]
           /\ fs' = r.fs
           /\ run' = r.run
           /\ iframe' = r.iframe
           /\ keys' = in.keys

\* main: Root{NewEditor()} on the files f.
Boot(f) ==
    NewEditor([mode |-> "Editor", l |-> NewLevel, heap |-> EmptyHeap, t |-> NewTyper(FALSE, "none"),
               load |-> FALSE, creating |-> Nil, cpin |-> <<0, 0>>, sel |-> NoSelector,
               autotimer |-> FALSE, game |-> NoGame,
               kdown |-> [k \in Keys |-> 0], mdown |-> 0,
               mdrag |-> [has |-> FALSE, pos |-> <<0, 0>>, delta |-> <<0, 0>>],
               fs |-> f, run |-> "running", ev |-> {},
               iframe |-> 1, depth |-> 0, over |-> FALSE],
              Input({}, FALSE, <<0, 0>>, <<>>, FALSE, FALSE))

InitOn(f) ==
    /\ mode = Boot(f).mode
    /\ l = Boot(f).l
    /\ heap = Boot(f).heap
    /\ typer = Boot(f).t
    /\ isload = FALSE
    /\ creating = Nil
    /\ cpin = <<0, 0>>
    /\ sel = NoSelector
    /\ autotimer = FALSE
    /\ game = NoGame
    /\ kdown = [k \in Keys |-> 0]
    /\ mdown = 0
    /\ mdrag = [has |-> FALSE, pos |-> <<0, 0>>]
    /\ fs = f
    /\ run = "running"
    /\ iframe = 1
    /\ keys = {}

NoFiles == [p \in Paths |-> NoFile]

\* ---- Spec: the keyboard.  No autosave file on disk; the file "p" is
\* missing, corrupt or SampleFile.
Home == <<260, 140>>

KeyCombos ==
    {{}, {"Enter"}, {"Backspace"}, {"Escape"}, {"S"}, {"L"}, {"A"}, {"P"}, {"R"}, {"E"},
     {"Meta", "S"}, {"Meta", "L"}, {"P", "Enter"}, {"P", "E"}, {"L", "A"}}

\* The character p arrives in a frame where the key P is held.
Inputs ==
    {Input(k, FALSE, Home, <<>>, FALSE, FALSE) : k \in KeyCombos}
    \cup {Input({"P"}, FALSE, Home, <<"p">>, FALSE, FALSE)}
    \cup {Input({}, FALSE, Home, <<>>, TRUE, e) : e \in BOOLEAN}
    \cup {Input(k, FALSE, Home, <<>>, FALSE, TRUE) : k \in {{"Enter"}, {"P"}}}

Init == \E f \in {NoFile, CorruptFile, SampleFile} : InitOn([NoFiles EXCEPT ![<<"p">>] = f])

Next == \E in \in Inputs : Frame(in)

Spec == Init /\ [][Next]_vars

\* ---- SpecSel: the mouse in the Block editor and in the Select editor.  The
\* autosave file holds one Art and one Block.  The cursor positions sampled,
\* in screen pixels, are (in world ticks) (12, 0), (15, 15), (18, 18), (0, 40),
\* (100, 100).
SelFile ==
    [kind |-> "level", Spawn |-> Vec(0, 0), Blocks |-> <<"{}">>,
     Art |-> <<[T |-> "{}", Path |-> <<"p">>]>>,
     BGAudio |-> NoPath, BGArt |-> NoPath, PlayerArt |-> NoPath, Triggers |-> {}]

CursorPts == {<<372, 240>>, <<375, 225>>, <<378, 222>>, <<360, 200>>, <<460, 140>>}

SelKeyCombos == {{"L"}, {"S"}, {"Backspace"}, {"Meta", "C"}, {"Meta", "V"}}

SelInputs ==
    {Input({}, b, c, <<>>, FALSE, FALSE) : b \in BOOLEAN, c \in CursorPts}
    \cup {Input(k, FALSE, <<460, 140>>, <<>>, FALSE, FALSE) : k \in SelKeyCombos}

InitSel == InitOn([NoFiles EXCEPT ![autosave] = SelFile])

NextSel == \E in \in SelInputs : Frame(in)

SpecSel == InitSel /\ [][NextSel]_vars

\* ---- SpecSpawn: the mouse on the Spawn in the Select editor.  The autosave
\* file holds one Block, read back at the origin, and the Spawn at the world
\* point (3, 3), which is the pixel (450, 150).  The cursor positions sampled
\* are the centre of the Spawn, its upper right corner, its rotator, a point
\* level with its centre and a point on the Block.
SpawnFile ==
    [kind |-> "level", Spawn |-> Vec(3 * PxPerUnit, 3 * PxPerUnit), Blocks |-> <<"{}">>,
     Art |-> <<>>,
     BGAudio |-> NoPath, BGArt |-> NoPath, PlayerArt |-> NoPath, Triggers |-> {}]

SpawnPts == {<<450, 150>>, <<460, 140>>, <<450, 115>>, <<460, 150>>, <<372, 240>>}

SpawnKeyCombos == {{"S"}, {"Backspace"}, {"Meta", "C"}, {"Meta", "V"}}

SpawnInputs ==
    {Input({}, b, c, <<>>, FALSE, FALSE) : b \in BOOLEAN, c \in SpawnPts}
    \cup {Input(k, FALSE, <<450, 150>>, <<>>, FALSE, FALSE) : k \in SpawnKeyCombos}

InitSpawn == InitOn([NoFiles EXCEPT ![autosave] = SpawnFile])

NextSpawn == \E in \in SpawnInputs : Frame(in)

SpecSpawn == InitSpawn /\ [][NextSpawn]_vars

\* ---- SpecArt: levels with art.  The autosave file is missing, or holds an
\* Art whose image is missing after one whose image loads, or holds an Art
\* and a player art that load; the file "p" is the latter or SampleFile.  The
\* keyboard loads "p", adds art, plays and returns; the mouse selects the
\* Art at the origin, which is then copied and pasted.
GoodArtFile ==
    [kind |-> "level", Spawn |-> Vec(0, 0), Blocks |-> <<>>,
     Art |-> <<[T |-> "{}", Path |-> <<"p">>]>>,
     BGAudio |-> NoPath, BGArt |-> NoPath, PlayerArt |-> <<"p">>, Triggers |-> {}]

BadArtFile ==
    [kind |-> "level", Spawn |-> Vec(0, 0), Blocks |-> <<>>,
     Art |-> <<[T |-> "{}", Path |-> <<"p">>], [T |-> "{}", Path |-> <<"p", "p">>]>>,
     BGAudio |-> NoPath, BGArt |-> NoPath, PlayerArt |-> NoPath, Triggers |-> {}]

ArtKeyCombos == {{"Enter"}, {"S"}, {"A"}, {"P"}, {"E"}, {"Meta", "L"}, {"Meta", "C"}, {"Meta", "V"}}

ArtInputs ==
    {Input({}, b, <<372, 240>>, <<>>, FALSE, FALSE) : b \in BOOLEAN}
    \cup {Input(k, FALSE, <<372, 240>>, <<>>, FALSE, FALSE) : k \in ArtKeyCombos}
    \cup {Input({"P"}, FALSE, <<372, 240>>, <<"p">>, FALSE, FALSE)}

InitArt ==
    \E f \in {NoFile, BadArtFile, GoodArtFile}, g \in {SampleFile, GoodArtFile} :
        InitOn([NoFiles EXCEPT ![autosave] = f, ![<<"p">>] = g])

NextArt == \E in \in ArtInputs : Frame(in)

SpecArt == InitArt /\ [][NextArt]_vars

\* ---- SpecBlock: the mouse in the Block editor, reset and play.  No file
\* is on disk.  The cursor positions sampled, in screen pixels, are the world
\* points (0, 0), (4, 2), (2, 0) and (-2, -2).
BlockPts == {<<360, 240>>, <<480, 180>>, <<420, 240>>, <<300, 300>>}

BlockKeyCombos == {{"L"}, {"R"}, {"P"}, {"E"}}

BlockInputs ==
    {Input({}, b, c, <<>>, FALSE, FALSE) : b \in BOOLEAN, c \in BlockPts}
    \cup {Input(k, FALSE, <<360, 240>>, <<>>, FALSE, FALSE) : k \in BlockKeyCombos}

InitBlock == InitOn(NoFiles)

NextBlock == \E in \in BlockInputs : Frame(in)

SpecBlock == InitBlock /\ [][NextBlock]_vars

\* ------------------------------------------------------------ properties
\* The frames are judged from the state they start in: Step(in) is the state
\* Root.Update leaves and Step(in).ev what it did on the way.
Happens(in) == run = "running" /\ Covered(Step(in))

\* The value of the level: what a player or a drawn frame can tell apart.
LevelValue(st) ==
    [Spawn |-> st.l.Spawn,
     Blocks |-> [i \in 1..Len(st.l.Blocks) |-> st.heap[st.l.Blocks[i]].T],
     Art |-> [i \in 1..Len(st.l.Art) |->
                 [T |-> st.heap[st.l.Art[i]].T, Path |-> st.heap[st.l.Art[i]].Path]],
     BGAudio |-> st.l.BGAudio, BGArt |-> st.l.BGArt, PlayerArt |-> st.l.PlayerArt,
     Triggers |-> st.l.Triggers]

EditorModes == {"Editor", "Platform", "Art", "SaveLoad", "Select"}

LoadFailed(r) == \E p \in Paths : <<"load_failed", p>> \in r.ev

\* C1: when the load submitted through the Save/Load tool fails, the level in
\* memory has the spawn, blocks, art, background and triggers it had before
\* the load was attempted.
C1_FailedLoadKeepsLevel ==
    \A in \in Inputs :
        LET r == Step(in)
        IN  Happens(in) /\ LoadFailed(r) => LevelValue(r) = LevelValue(Cur)

\* C2: when the load submitted through the Save/Load tool fails, Root.Update
\* returns no error and an editor mode is still the active app.
C2_FailedLoadKeepsRunning ==
    \A in \in Inputs :
        LET r == Step(in)
        IN  Happens(in) /\ LoadFailed(r) => r.run = "running" /\ r.mode \in EditorModes

\* A typing frame: the active app owns a Typer and its Update leaves the typer
\* typing (it was typing and Enter is not newly pressed, or it was idle and
\* Enter is newly pressed).
TyperKeys == {"Enter", "Backspace"}
CommandKeys == {"L", "A", "S", "P", "R"}
Typing(in) ==
    /\ mode \in {"Art", "SaveLoad"}
    /\ typer.typ # ClickedVal(InputsUpdate(Start(in), in), in, "Enter")

\* Nothing but the typer's text entry had an effect: apart from the typer and
\* the press records of Enter and Backspace, the frame leaves what
\* InputsUpdate left.
OnlyTextEntry(r, in) ==
    LET s0 == InputsUpdate(Start(in), in)
    IN  [r EXCEPT !.t = s0.t, !.ev = {}, !.depth = 0,
                  !.kdown = [k \in Keys |-> IF k \in TyperKeys THEN s0.kdown[k] ELSE @[k]]]
        = [s0 EXCEPT !.ev = {}, !.depth = 0]

CommandEvents == {<<"activate", i>> : i \in 1..Len(subeditors)} \cup {<<"play">>, <<"reset">>}

C5_ClickedOnlyOnPressEdge ==
    \A in \in Inputs :
        Happens(in) => \A k \in Keys : <<"clicked", k>> \in Step(in).ev => k \notin keys

\* The frames in which the active app updates its Typer.
TyperRuns(in) == Happens(in) /\ mode \in {"Art", "SaveLoad"} /\ ~Pressed(in, "Escape")
EnterClicked(in) == ClickedVal(InputsUpdate(Start(in), in), in, "Enter")
Submitted(r) == {e \in r.ev : e[1] = "submit"}

\* C6: the Typer has two states.  An idle typer holds no text.  An Enter that
\* went down in this frame is reported by Clicked.  A newly
\* pressed Enter in idle enters typing with the buffer holding nothing but
\* the characters of that frame.  A newly pressed Enter in typing returns the
\* buffer as the completed command and leaves the typer idle with an empty
\* buffer.  Without a newly pressed Enter the state stays, nothing is
\* returned and, while typing, the buffer loses its last character to a newly
\* pressed Backspace and gains the characters of the frame.  So a text is
\* returned once, in the frame of the Enter that ends its typing.
C6_TyperStateMachine ==
    /\ mode \in {"Art", "SaveLoad"} /\ ~typer.typ => typer.cmd = <<>>
    /\ \A in \in Inputs :
           LET s0 == InputsUpdate(Start(in), in)
               r  == TyperUpdate(s0, in)
               bs == Len(typer.cmd) > 0 /\ ClickedVal(s0, in, "Backspace")
           IN  TyperRuns(in) =>
                   /\ Pressed(in, "Enter") /\ "Enter" \notin keys => EnterClicked(in)
                   /\ ~typer.typ /\ EnterClicked(in) =>
                          r.typ /\ r.st.t.typ /\ r.st.t.cmd = in.chars /\ r.cmd = <<>>
                   /\ typer.typ /\ EnterClicked(in) =>
                          /\ r.cmd = typer.cmd /\ ~r.typ
                          /\ ~r.st.t.typ /\ r.st.t.cmd = <<>>
                          /\ Submitted(Step(in)) = {<<"submit", typer.cmd>>}
                          /\ Step(in).t.cmd = <<>>
                   /\ ~EnterClicked(in) =>
                          /\ r.cmd = <<>> /\ r.typ = typer.typ /\ r.st.t.typ = typer.typ
                          /\ Submitted(Step(in)) = {}
                          /\ typer.typ =>
                                 r.st.t.cmd = (IF bs THEN SubSeq(typer.cmd, 1, Len(typer.cmd) - 1)
                                               ELSE typer.cmd) \o in.chars

\* The Art editor's typer returned a text (the status shows what became of
\* it) and is idle again, with an empty buffer, and Enter is still held.
C6_TextReturned ==
    /\ mode = "Art" /\ typer.Placeholder \in {"failed", "loaded"}
    /\ ~typer.typ /\ typer.cmd = <<>> /\ "Enter" \in keys /\ run = "running"

\* The events of a completed command: an image added by the Art editor, a
\* level saved or loaded by the Save/Load tool.
ToolEvents(r) == {e \in r.ev : e[1] \in {"addimage", "tool_save", "loaded", "load_failed"}}

\* C7: Enter on an empty buffer yields no command.  The Art editor appends no
\* Art and, while it stays the active app, shows the status it showed; the
\* Save/Load tool neither saves nor loads, leaves the files other than the
\* autosave file alone and leaves the level alone (Editor.Update, which runs
\* next, may still reset it on R).
C7_EmptySubmitYieldsNothing ==
    \A in \in Inputs :
        LET r == Step(in)
        IN  TyperRuns(in) /\ typer.typ /\ EnterClicked(in) /\ typer.cmd = <<>> =>
                /\ ToolEvents(r) = {}
                /\ Submitted(r) = {<<"submit", <<>>>>}
                /\ Len(r.l.Art) = Len(l.Art)
                /\ r.mode = "Art" => r.t.Placeholder = typer.Placeholder
                /\ \A p \in Paths \ {autosave} : r.fs[p] = fs[p]
                /\ LevelValue(r) = LevelValue(Cur) \/ <<"reset">> \in r.ev

\* The Save/Load tool is still the active app with an idle typer: Enter was
\* pressed on its empty buffer.
C7_EmptySubmitted ==
    mode = "SaveLoad" /\ ~typer.typ /\ typer.cmd = <<>> /\ run = "running"

\* The collection of the level a selector's object belongs to.
Collection(st, se) == IF se.k = "art" THEN st.l.Art ELSE st.l.Blocks
Without(seq, x) == SelectSeq(seq, LAMBDA y : y # x)
NewlyPressed(in, k) == Pressed(in, k) /\ k \notin keys

\* C8: when Backspace goes down while an Art or a Block is selected, the frame
\* completes with that object removed from its collection, the other elements
\* in their order, and the selection empty.
C8_DeleteRemovesSelection ==
    \A in \in SelInputs :
        LET r == Step(in)
        IN  Happens(in) /\ mode = "Select" /\ Deletable(sel.s) /\ NewlyPressed(in, "Backspace") =>
                /\ r.run = "running"
                /\ r.sel.s = NoSel
                /\ Collection(r, sel.s) = Without(Collection(Cur, sel.s), sel.s.id)
                /\ Len(Collection(r, sel.s)) = Len(Collection(Cur, sel.s)) - 1

PasteTriggered(in) ==
    /\ Happens(in) /\ mode = "Select" /\ sel.clipboard # NoSel
    /\ NewlyPressed(in, "V") /\ Pressed(in, "Meta")

\* C9: a paste with a non-empty clipboard appends exactly one object to the
\* collection of the copied object and to no other, the new object is the
\* selection and the last selectable, and it is a copy held in an object of
\* its own, which nothing referred to before.  The two are independent: in
\* every frame of the Select editor an object changes only if it is the
\* selection, and an object leaves its collection only if it was the selection.
C9_PasteAppendsIndependentCopy ==
    \A in \in SelInputs :
        LET r      == Step(in)
            src    == sel.clipboard
            before == Collection(Cur, src)
            after  == Collection(r, src)
            new    == r.sel.s
        IN  /\ PasteTriggered(in) =>
                /\ after = Append(before, new.id)
                /\ new.k = src.k
                /\ (IF src.k = "art" THEN r.l.Blocks = l.Blocks ELSE r.l.Art = l.Art)
                /\ r.sel.Selectables = Append(sel.Selectables, new)
                /\ new.id # src.id /\ new.id \notin Roots(Cur) /\ heap[new.id].kind = "free"
                /\ r.heap[new.id] = heap[src.id]
                /\ r.heap[src.id] = heap[src.id]
            /\ Happens(in) /\ mode = "Select" /\ r.run = "running" =>
                /\ \A id \in Ids : heap[id].kind # "free" /\ r.heap[id] # heap[id] => id = r.sel.s.id
                /\ \A k \in {"art", "block"} : \A i \in 1..Len(Collection(Cur, [k |-> k])) :
                       LET id == Collection(Cur, [k |-> k])[i]
                       IN  Index(Collection(r, [k |-> k]), id) = -1 => sel.s = [k |-> k, id |-> id]

\* An object was pasted and then transformed: the copy is the selection and
\* its transform now differs from the transform of the object it was copied from.
C9_CopyMovedAlone ==
    /\ mode = "Select" /\ run = "running"
    /\ sel.clipboard # NoSel /\ sel.s # NoSel /\ sel.s # sel.clipboard
    /\ sel.s.k = sel.clipboard.k
    /\ Len(sel.Selectables) > 3 /\ sel.s = sel.Selectables[Len(sel.Selectables)]
    /\ heap[sel.s.id].T # heap[sel.clipboard.id].T

\* C10: hit-testing never crashes, whatever transforms the editor operations
\* have produced: no frame ends in the panic of Invert on a singular transform.
C10_HitNeverPanics ==
    \A in \in SelInputs :
        Happens(in) => <<"panic", "hit">> \notin Step(in).ev

\* ---- the pointer press of the Selector
\* A frame that starts in the Select editor and in which MouseClicked reports
\* a press of the left button.
PressFrame(in) ==
    mode = "Select" /\ Happens(in) /\ <<"mouseclicked">> \in Step(in).ev

\* The point pt lies in the image of the unit square under m; the image of a
\* singular or non-finite transform contains no point.
Contains(pt, m) == ~m.nf /\ MxDet(m) # 0 /\ HitVal(pt, m)

\* The selectables under the cursor when the frame starts, by position in
\* the Selector's list.
Under(in) ==
    {i \in 1..Len(sel.Selectables) : Contains(Cursor(in), Transform(Cur, sel.Selectables[i]))}

\* The first of the selectables under the cursor that have the smallest diagonal.
Smallest(in) ==
    CHOOSE i \in Under(in) :
        \A j \in Under(in) :
            \/ Diagonal(Transform(Cur, sel.Selectables[i])) < Diagonal(Transform(Cur, sel.Selectables[j]))
            \/ /\ Diagonal(Transform(Cur, sel.Selectables[i])) = Diagonal(Transform(Cur, sel.Selectables[j]))
               /\ i <= j

\* C11: on a pointer press with a selectable under the cursor, the frame ends
\* with the first selectable of the smallest diagonal among those under the
\* cursor as the selection.
C11_SmallestDiagonalSelected ==
    \A in \in SelInputs :
        PressFrame(in) /\ Under(in) # {} =>
            /\ Step(in).run = "running"
            /\ Step(in).sel.s = sel.Selectables[Smallest(in)]

\* The handles of the current selection under the cursor when the frame starts.
OnRotator(in) == sel.s # NoSel /\ HitHandle(Cursor(in), rotator(Cur))
OnScalars(in) == {i \in 1..4 : sel.s # NoSel /\ HitHandle(Cursor(in), scalars(Cur)[i])}

\* C12: a pointer press on the rotation handle or on a corner scale handle of
\* the current selection keeps the selection; on a scale handle the Selector
\* ends the frame scaling with the index of the first handle hit recorded,
\* otherwise it ends the frame rotating.
C12_HandlePressGrabsHandle ==
    \A in \in SelInputs :
        PressFrame(in) /\ (OnRotator(in) \/ OnScalars(in) # {}) =>
            /\ Step(in).run = "running"
            /\ Step(in).sel.s = sel.s
            /\ OnScalars(in) # {} =>
                   /\ Step(in).sel.state = "selscaling"
                   /\ Step(in).sel.scalar \in OnScalars(in)
                   /\ \A j \in OnScalars(in) : Step(in).sel.scalar <= j
            /\ OnScalars(in) = {} => Step(in).sel.state = "selrotating"

\* The transforms of the level: the spawn point and every object in the heap.
Transforms(st) == [Spawn |-> st.l.Spawn, T |-> [i \in Ids |-> st.heap[i].T]]

\* A press that lands on no selectable and on no handle of the selection.
MissFrame(in) ==
    PressFrame(in) /\ Under(in) = {} /\ ~OnRotator(in) /\ OnScalars(in) = {}

\* A later frame of a press: the button is held, the press was reported in an
\* earlier frame and nothing is selected.
HeldAfterMiss(in) ==
    /\ mode = "Select" /\ Happens(in)
    /\ in.left /\ mdown = 1 /\ sel.s = NoSel /\ sel.state = "selidle"

\* C13: a press that hits no selectable and no handle empties the selection
\* and leaves the Selector idle, in the frame of the press and in every later
\* frame the button is held, and no transform changes.
C13_MissClearsSelection ==
    \A in \in SelInputs :
        MissFrame(in) \/ HeldAfterMiss(in) =>
            /\ Step(in).run = "running"
            /\ Step(in).sel.s = NoSel
            /\ Step(in).sel.state = "selidle"
            /\ Transforms(Step(in)) = Transforms(Cur)

\* ---- the release of the pointer
\* The state Selector.Update starts in and the state it leaves, in a frame
\* that starts in the Select editor.
SelectorIn(in) == InputsUpdate(Enter(Start(in), "Root"), in)
SelectorOut(in) == SelectorUpdate(SelectorIn(in), in)

ReleasedFrame(in) == mode = "Select" /\ Happens(in) /\ ~in.left

DeleteFired(r) == \E e \in r.ev : e[1] \in {"delete", "delete_panic"}
PasteFired(r) == \E e \in r.ev : e[1] = "paste"

\* C14 as stated: in every frame in which the left button is not pressed,
\* Selector.Update leaves the state idle, keeps the selection and changes no
\* transform.
C14_ReleaseKeepsSelection ==
    \A in \in SelInputs :
        ReleasedFrame(in) =>
            /\ SelectorOut(in).sel.state = "selidle"
            /\ SelectorOut(in).sel.s = sel.s
            /\ Transforms(SelectorOut(in)) = Transforms(Cur)

\* C14, amended: in every frame in which the left button is not pressed and
\* Selector.Update neither deletes nor pastes, it leaves the state idle, keeps
\* the selection and changes no transform.
C14_ReleaseKeepsSelectionUnlessEdited ==
    \A in \in SelInputs :
        ReleasedFrame(in) /\ ~DeleteFired(SelectorOut(in)) /\ ~PasteFired(SelectorOut(in)) =>
            /\ SelectorOut(in).run = "running"
            /\ SelectorOut(in).sel.state = "selidle"
            /\ SelectorOut(in).sel.s = sel.s
            /\ Transforms(SelectorOut(in)) = Transforms(Cur)

\* The pointer was released after a drag that moved the selection: the
\* Selector is idle, the object is still selected and keeps where it was dragged to.
C14_ReleasedAfterMove ==
    /\ mode = "Select" /\ run = "running" /\ mdown = 0 /\ mdrag.has
    /\ sel.state = "selidle" /\ sel.s.k \in {"art", "block"}
    /\ heap[sel.s.id].T.tx # 0

\* ---- single selection
\* The selectables the Selector shows as selected: those its selection designates.
Selected == {i \in 1..Len(sel.Selectables) : sel.Selectables[i] = sel.s}

\* C15: at most one object is selected at a time: the selection is empty, or
\* it designates exactly one of the selectables.
C15_AtMostOneSelected ==
    /\ Cardinality(Selected) <= 1
    /\ sel.s # NoSel => Cardinality(Selected) = 1

\* An object was copied and pasted, and a later click selected another
\* object than the pasted one.
C15_ReselectedAfterPaste ==
    /\ mode = "Select" /\ run = "running"
    /\ Len(sel.Selectables) > 3 /\ sel.clipboard # NoSel
    /\ sel.s # NoSel /\ sel.s # sel.Selectables[Len(sel.Selectables)]

\* ---- the subeditors table
\* The sub-mode each entry of the table activates.
SubMode(i) == <<"Platform", "Art", "Select">>[i]

\* The entries of the table whose key is newly pressed in the frame.
NewSubKeys(in) == {i \in 1..Len(subeditors) : NewlyPressed(in, subeditors[i])}
Activations(r) == {e \in r.ev : e[1] = "activate"}

\* A frame in which Editor.Update reaches the table: no Typer is typing, and
\* neither Escape, the save and load tools nor play take the frame.
TableFrame(in) ==
    /\ Happens(in) /\ mode \in EditorModes
    /\ ~(mode \in {"Art", "SaveLoad"} /\ TyperUpdate(SelectorIn(in), in).typ)
    /\ in.keys \cap {"Escape", "Meta", "P", "Enter"} = {}

\* C16: when the keys of several sub-modes are newly pressed in one frame, the
\* frame ends in the sub-mode earliest in the table and the table activates
\* one sub-mode in that frame.
C16_FirstSubeditorWins ==
    \A in \in Inputs :
        TableFrame(in) /\ Cardinality(NewSubKeys(in)) > 1 =>
            /\ \A j \in NewSubKeys(in) : Step(in).mode = SubMode(j) => \A i \in NewSubKeys(in) : j <= i
            /\ Step(in).mode \in {SubMode(j) : j \in NewSubKeys(in)}
            /\ Cardinality(Activations(Step(in))) = 1

\* ---- the Block editor
\* A frame the Block editor starts and ends as the active mode, without a
\* reset of the level (R) or a new editor in between.
BlockFrame(in) ==
    /\ mode = "Platform" /\ Happens(in) /\ Step(in).mode = "Platform"
    /\ <<"reset">> \notin Step(in).ev

\* The transforms of the blocks of the level, in list order.
BlockTransforms(st) == [i \in 1..Len(st.l.Blocks) |-> st.heap[st.l.Blocks[i]].T]

\* The claims of C17 about one frame that starts in the Block editor.
AppendsOnRelease(in) ==
    /\ in.left =>
           /\ Step(in).l.Blocks = l.Blocks
           /\ Step(in).creating # Nil
           /\ \A i \in 1..Len(l.Blocks) : l.Blocks[i] # Step(in).creating
    /\ ~in.left /\ creating # Nil =>
           /\ Step(in).l.Blocks = Append(l.Blocks, creating)
           /\ Step(in).creating = Nil
    /\ ~in.left /\ creating = Nil => Step(in).l.Blocks = l.Blocks
    /\ SubSeq(BlockTransforms(Step(in)), 1, Len(l.Blocks)) = BlockTransforms(Cur)

\* C17 as stated: while the Block editor stays the active mode, a frame of a
\* press with the button held appends nothing; the frame of the release appends the block
\* in creation, and only it, to the end of Level.Blocks; the blocks already in
\* the list keep their order and transforms.
C17_ReleaseAppendsOneBlock ==
    \A in \in BlockInputs :
        /\ mode = "Platform" /\ Happens(in) /\ Step(in).mode = "Platform"
        /\ in.left \/ creating # Nil
        => AppendsOnRelease(in)

\* C17, amended: the same, in the frames in which the level is not reset (R).
C17_ReleaseAppendsOneBlockUnlessReset ==
    \A in \in BlockInputs : BlockFrame(in) => AppendsOnRelease(in)

\* A block was drawn and released in the Block editor: it is the last block of
\* the level, after the block the level had, and no block is in creation.
C17_BlockDrawn ==
    /\ mode = "Platform" /\ run = "running" /\ creating = Nil /\ mdown = 0
    /\ Len(l.Blocks) = 2
    /\ heap[l.Blocks[1]].T = MxScale(MxIdentity, 2 * DefaultBlockW, 1, 2)
    /\ heap[l.Blocks[2]].T.a = 120 /\ heap[l.Blocks[2]].T.d = 60

\* ---- the geometry of a drawn block
\* The corner the drag of the frame is pinned at, in world ticks.
Pin(in) == IF creating = Nil THEN Cursor(in) ELSE cpin

\* C18: a block dragged from the corner Pin to the cursor, in whatever
\* direction, decomposes as Level.apply decomposes it into the centre half way
\* between the two corners (c2 is twice the centre), the width and height
\* |x1 - x0| and |y1 - y0| (twice the half extents) and the angle 0 (the
\* direction of the positive x axis).
C18_DraggedBlockDecomposes ==
    \A in \in BlockInputs :
        mode = "Platform" /\ Happens(in) /\ in.left /\ Step(in).mode = "Platform" =>
            /\ Step(in).creating # Nil
            /\ Entity(Step(in).heap[Step(in).creating].T) =
                   [c2  |-> <<Pin(in)[1] + Cursor(in)[1], Pin(in)[2] + Cursor(in)[2]>>,
                    w   |-> Abs(Cursor(in)[1] - Pin(in)[1]),
                    h   |-> Abs(Cursor(in)[2] - Pin(in)[2]),
                    ang |-> <<Abs(Cursor(in)[1] - Pin(in)[1]), 0>>]

\* A block is being dragged from the world point (4, 2) down and left to
\* (0, 0): its centre is (2, 1), its width 4 and its height 2.
C18_DraggedDownLeft ==
    /\ mode = "Platform" /\ run = "running" /\ creating # Nil
    /\ cpin = <<4 * PxPerUnit, 2 * PxPerUnit>>
    /\ Entity(heap[creating].T) =
           [c2 |-> <<4 * PxPerUnit, 2 * PxPerUnit>>, w |-> 4 * PxPerUnit, h |-> 2 * PxPerUnit,
            ang |-> <<4 * PxPerUnit, 0>>]

\* C19: the Block editor never commits a degenerate block: every Block of the
\* Level has a width and a height that are not zero.
C19_NoZeroSizeBlockCommitted ==
    \A i \in 1..Len(l.Blocks) :
        /\ Entity(heap[l.Blocks[i]].T).w # 0
        /\ Entity(heap[l.Blocks[i]].T).h # 0

\* ---- play
\* A frame in which Editor.Update starts the game (P).
PlayFrame(in) == Happens(in) /\ <<"play">> \in Step(in).ev /\ Step(in).mode = "Admin"

\* C20: the game the level was applied to holds one entity per Block of the
\* level, in the order of Level.Blocks, each the decomposition of that Block's
\* transform, and its player stands at Level.Spawn.
C20_ApplyMakesOneEntityPerBlock ==
    \A in \in BlockInputs :
        PlayFrame(in) =>
            /\ Len(Step(in).game.entities) = Len(Step(in).l.Blocks)
            /\ \A i \in 1..Len(Step(in).l.Blocks) :
                   Step(in).game.entities[i] = Entity(Step(in).heap[Step(in).l.Blocks[i]].T)
            /\ Step(in).game.spawn = Step(in).l.Spawn

\* The game was started on a level of two different blocks.
C20_PlayingTwoBlocks ==
    /\ mode = "Admin" /\ run = "running"
    /\ Len(l.Blocks) = 2 /\ Len(game.entities) = 2
    /\ game.entities[1] # game.entities[2]

\* A decomposition with an extent of zero.
Degenerate(e) == e.w = 0 \/ e.h = 0

\* C21: the game the level was applied to holds no collider for a Block whose
\* extracted width or height is zero, and holds the colliders of the other
\* Blocks, in their order.
C21_ApplySkipsDegenerateBlocks ==
    \A in \in BlockInputs :
        PlayFrame(in) =>
            Step(in).game.entities =
                SelectSeq([i \in 1..Len(Step(in).l.Blocks) |->
                              Entity(Step(in).heap[Step(in).l.Blocks[i]].T)],
                          LAMBDA e : ~Degenerate(e))

\* ---- back from play
\* A frame of the game in which E makes a new Editor the active app.
ReturnFrame(in) ==
    /\ mode = "Admin" /\ Happens(in)
    /\ \E e \in Step(in).ev : e[1] = "neweditor"
    /\ Step(in).mode \in EditorModes

\* C22: the Editor that is active after the return from play holds the level
\* that was edited when play was entered: the same spawn, the same blocks in
\* the same order with the same transforms, the same art.
C22_PlayKeepsLevel ==
    \A in \in BlockInputs :
        ReturnFrame(in) => LevelValue(Step(in)) = LevelValue(Cur)

\* ---- save and load
\* A frame's input in which nothing is pressed and the disk works.
Quiet == Input({}, FALSE, Home, <<>>, FALSE, FALSE)

\* The level of the current state saved to the path p and loaded from it.
SavedAndLoaded(p) == load(save(Cur, Quiet, p), Quiet, p)

\* C23: saving the level to a path and loading that path succeeds and yields
\* the same spawn, the same Blocks and Art in number and order, each with the
\* same six transform elements, and the same art paths.
C23_SaveLoadRoundTrip ==
    \A p \in Paths :
        run = "running" /\ ~SavedAndLoaded(p).st.over =>
            /\ ~SavedAndLoaded(p).err
            /\ LevelValue(SavedAndLoaded(p).st) = LevelValue(Cur)

\* A save failed in the frame: the periodic autosave, the autosave on
\* entering play or the save of the Save tool.
SaveFailed(r) == \E e \in r.ev : e[1] = "save_failed"

\* What the frame did besides saving: an image was submitted in the Art editor.
ArtSubmitted(r) == \E e \in r.ev : e[1] = "addimage"

\* C24: a frame in which a save fails returns no error, and an editor mode or
\* the game is the active app after it; the failed save itself changes nothing
\* in memory but the record of the frame, and the
\* level in memory is the one the frame started with unless the frame also
\* added an image.
C24_FailedSaveNotFatal ==
    \A in \in Inputs :
        Happens(in) /\ SaveFailed(Step(in)) =>
            /\ Step(in).run = "running"
            /\ Step(in).mode \in EditorModes \cup {"Admin"}
            /\ \A p \in Paths : [save(Cur, in, p) EXCEPT !.ev = {}, !.fs = fs] = Cur
            /\ ~ArtSubmitted(Step(in)) => LevelValue(Step(in)) = LevelValue(Cur)

\* The game is running although the autosave on entering play failed: no
\* autosave file was ever written.
C24_PlayingUnsaved ==
    mode = "Admin" /\ run = "running" /\ fs[autosave] = NoFile

\* ---- the Art editor
\* The paths submitted in the frame, with the outcome of AddImage.
ImageSubmissions(r) == {e \in r.ev : e[1] = "addimage"}

\* The level with its art list cut to the first n elements.
ArtPrefix(v, n) == [v EXCEPT !.Art = SubSeq(@, 1, n)]

\* C25: in the Art editor a submitted path whose image loads appends one Art,
\* with that path, the default transform and its image, to the end of
\* Level.Art and changes nothing else of the level; a path whose image fails
\* to load leaves the level as it was; the status message tells which, and the
\* frame returns no error.
C25_AddImageAppendsOrReports ==
    \A in \in Inputs :
        mode = "Art" /\ Happens(in) =>
            \A e \in ImageSubmissions(Step(in)) :
                /\ Step(in).run = "running"
                /\ Step(in).mode = "Art" =>
                       Step(in).t.Placeholder = IF e[2] \in GoodImages THEN "loaded" ELSE "failed"
                /\ e[3] = (e[2] \notin GoodImages)
                /\ e[2] \notin GoodImages => LevelValue(Step(in)) = LevelValue(Cur)
                /\ e[2] \in GoodImages =>
                       /\ Len(Step(in).l.Art) = Len(l.Art) + 1
                       /\ ArtPrefix(LevelValue(Step(in)), Len(l.Art)) = LevelValue(Cur)
                       /\ LevelValue(Step(in)).Art[Len(l.Art) + 1] = [T |-> MxIdentity, Path |-> e[2]]
                       /\ Step(in).heap[Step(in).l.Art[Len(l.Art) + 1]].img
                       /\ \A i \in 1..Len(l.Art) : l.Art[i] # Step(in).l.Art[Len(l.Art) + 1]

\* An image was loaded into a level that already had one: the new Art is the
\* last of the two and the Art editor shows the success.
C25_ImageAppended ==
    /\ mode = "Art" /\ run = "running"
    /\ typer.Placeholder = "loaded"
    /\ Len(l.Art) = 2 /\ heap[l.Art[2]].Path = <<"p">> /\ heap[l.Art[2]].T = MxIdentity

\* ---- the Spawn adapter
\* Frames of the Select editor that rotate or scale the selected Spawn.
TurnsSpawn(in) ==
    /\ mode = "Select" /\ Happens(in)
    /\ \E e \in Step(in).ev : e[1] \in {"rotate", "scale"} /\ e[2] = SpawnSelector

\* Transforms written back through an adapter: the transforms of the objects
\* and the Spawn's own, turned, scaled and moved.
WrittenBack ==
    {heap[i].T : i \in Ids \ FreeIds(Cur)} \cup
    {MxTranslate(MxRotate(Transform(Cur, SpawnSelector), 0, 1), dx, dy) : dx, dy \in {0, PxPerUnit}}

\* C26: writing a transform back through the Spawn adapter changes only
\* Level.Spawn and sets it to the image of (0, 0) under the transform; writing
\* back the adapter's own transform leaves the Spawn as it was; and a frame
\* that rotates or scales the selected Spawn leaves the Spawn where it was.
C26_SpawnKeepsOnlyTranslation ==
    /\ \A m \in WrittenBack :
           /\ SetTransform(Cur, SpawnSelector, m) = [Cur EXCEPT !.l.Spawn = SetTransform(Cur, SpawnSelector, m).l.Spawn]
           /\ ~m.nf => SetTransform(Cur, SpawnSelector, m).l.Spawn =
                           Vec(MxApply2(m, 0, 0)[1] \div 2, MxApply2(m, 0, 0)[2] \div 2)
    /\ SetTransform(Cur, SpawnSelector, Transform(Cur, SpawnSelector)) = Cur
    /\ \A in \in SpawnInputs : TurnsSpawn(in) => Step(in).l.Spawn = l.Spawn

\* Frames of the Select editor that begin with the Spawn selected.
SpawnSelected(in) == mode = "Select" /\ Happens(in) /\ sel.s = SpawnSelector

\* The delete command and the copy command of Selector.Update.
DeleteCommand(in) == ClickedVal(Cur, in, "Backspace")
CopyCommand(in) == ClickedVal(Cur, in, "C") /\ Pressed(in, "Meta")

\* C27: with the Spawn selected a delete command leaves the level and the
\* selection as they were and a copy command leaves the clipboard as it was;
\* no frame deletes, copies or pastes the Spawn, and the Select editor lists
\* the one Spawn of the level once.
C27_SpawnNotDeletedNorCopied ==
    /\ \A in \in SpawnInputs :
           /\ SpawnSelected(in) /\ DeleteCommand(in) =>
                  /\ Step(in).run = "running"
                  /\ LevelValue(Step(in)) = LevelValue(Cur)
                  /\ Step(in).sel.s = SpawnSelector
           /\ SpawnSelected(in) /\ CopyCommand(in) => Step(in).sel.clipboard = sel.clipboard
           /\ Happens(in) =>
                  \A e \in Step(in).ev : e[1] \in {"delete", "delete_panic", "copy", "paste"} => e[2] # SpawnSelector
    /\ mode = "Select" /\ run = "running" =>
           Cardinality({i \in 1..Len(sel.Selectables) : sel.Selectables[i] = SpawnSelector}) = 1
    /\ sel.clipboard # SpawnSelector

\* The copy command was given with the Spawn selected and a Block in the
\* clipboard.
C27_CopyWithSpawnSelected ==
    /\ mode = "Select" /\ run = "running"
    /\ keys = {"Meta", "C"}
    /\ sel.s = SpawnSelector /\ sel.clipboard.k = "block"

\* ---- moving
\* The pointer's motion, in pixels, since the frame before, as the drag record
\* of the left button has it; zero while there is no record.
DragDelta(in) ==
    IF mdrag.has THEN <<in.cur[1] - mdrag.pos[1], in.cur[2] - mdrag.pos[2]>> ELSE <<0, 0>>

\* 2 * hw * dx / sw and -2 * hh * dy / sh, in ticks.
WorldDX(dx) == (2 * CamHW * dx * PxPerUnit) \div ScreenW
WorldDY(dy) == -((2 * CamHH * dy * PxPerUnit) \div ScreenH)

\* The objects moved in the frame.
Moved(r) == {e[2] : e \in {x \in r.ev : x[1] = "move"}}

\* C28: a frame in the moving state translates the transform of the selected
\* object by (2*hw*dx/sw, -2*hh*dy/sh), (dx, dy) being the frame's drag delta
\* in pixels, and changes no other transform; a frame with the button down
\* that ends in the moving state with an object selected is such a frame.
C28_MoveTranslatesByDragDelta ==
    \A in \in SpawnInputs :
        mode = "Select" /\ Happens(in) =>
            /\ \A s \in Moved(Step(in)) :
                   /\ s = Step(in).sel.s /\ in.left
                   /\ Transform(Step(in), s) =
                          MxTranslate(Transform(Cur, s), WorldDX(DragDelta(in)[1]), WorldDY(DragDelta(in)[2]))
                   /\ \A i \in Ids \ FreeIds(Cur) : i # s.id => Step(in).heap[i].T = heap[i].T
                   /\ s # SpawnSelector => Step(in).l.Spawn = l.Spawn
            /\ in.left /\ Step(in).run = "running" /\ Step(in).sel.s # NoSel /\ Step(in).sel.state = "selmoving"
                   => Moved(Step(in)) = {Step(in).sel.s}

\* The Spawn, pressed at its centre, was dragged 10 pixels to the right:
\* its world x grew by a third of a unit.
C28_DraggedTenPixels ==
    /\ mode = "Select" /\ run = "running" /\ mdown # 0
    /\ sel.s = SpawnSelector /\ sel.state = "selmoving"
    /\ mdrag.has /\ mdrag.pos = <<460, 150>>
    /\ l.Spawn = Vec(3 * PxPerUnit + PxPerUnit \div 3, 3 * PxPerUnit)

\* ---- the hit test
\* Local coordinates in hundredths: the centre, the edges of the unit square
\* and the points one hundredth outside them.
LocalGrid == {-51, -50, 0, 50, 51}

\* The transform m with the world measured in hundredths of a tick.
Fine(m) == [m EXCEPT !.a = 100 * @, !.b = 100 * @, !.tx = 100 * @,
                     !.c = 100 * @, !.d = 100 * @, !.ty = 100 * @]

\* GeoM.Apply: the image of the local point (u/100, v/100) under m, in
\* hundredths of a tick.
Image(m, u, v) == <<m.a * u + m.b * v + 100 * m.tx, m.c * u + m.d * v + 100 * m.ty>>

\* Rotated, sheared, mirrored and stretched transforms besides the ones the
\* selectables of the state have.
OtherMxs ==
    {[a |-> p[1], b |-> p[2], c |-> p[3], d |-> p[4], tx |-> t, ty |-> -t, nf |-> FALSE] :
         p \in {<<0, -30, 30, 0>>, <<30, 30, 0, 30>>, <<-30, 0, 0, 45>>, <<21, -21, 21, 21>>,
                <<1, 0, 0, 1>>, <<60, 30, 30, 60>>},
         t \in {0, 7}}

HitTested ==
    {m \in OtherMxs \cup {Transform(Cur, sel.Selectables[i]) : i \in 1..Len(sel.Selectables)} :
         ~m.nf /\ MxDet(m) # 0}

\* C29: for a transform that can be inverted, the point that is the image of a
\* local point is a hit exactly when both local coordinates lie in
\* [-0.5, 0.5]: the image of (0.5, 0.5) is a hit, that of (0.51, 0) is not.
C29_HitIsClosedUnitSquare ==
    \A m \in HitTested :
        /\ \A u, v \in LocalGrid :
               HitVal(Image(m, u, v), Fine(m)) <=> (Abs(u) <= 50 /\ Abs(v) <= 50)
        /\ HitVal(Image(m, 50, 50), Fine(m))
        /\ ~HitVal(Image(m, 51, 0), Fine(m))

\* The button went down on the upper right corner of the Spawn, the image of
\* the local point (0.5, 0.5), and the Spawn is selected.
C29_PressedOnCorner ==
    /\ mode = "Select" /\ run = "running" /\ mdown # 0
    /\ l.Spawn = Vec(3 * PxPerUnit, 3 * PxPerUnit)
    /\ mdrag.has /\ mdrag.pos = <<460, 140>>
    /\ Transform(Cur, SpawnSelector) \in HitTested
    /\ Image(Transform(Cur, SpawnSelector), 50, 50) = <<100 * 100, 100 * 100>>
    /\ sel.s = SpawnSelector /\ sel.state = "selscaling"

\* ---- the binary form of a transform
\* The finite transforms of the state, of the handles' test set, and some with
\* elements of more than one byte.
GobTested ==
    {m \in OtherMxs \cup {heap[i].T : i \in Ids \ FreeIds(Cur)}
           \cup {Transform(Cur, SpawnSelector)}
           \cup {[a |-> 70000, b |-> -256, tx |-> 255, c |-> 1, d |-> -70000, ty |-> 16777216 + 3, nf |-> FALSE]} :
         ~m.nf}

\* The six numbers of an encoded transform, in the order of the sequence.
Numbers(bytes) == [i \in 1..6 |-> Uint64(bytes, 8 * (i - 1))]

\* C30: the encoding of a finite transform is a sequence of six numbers, the
\* elements of the matrix row by row (a, b, tx, then c, d, ty), and decoding
\* the sequence gives back the transform, every element in its position.
C30_GobRoundTrip ==
    \A m \in GobTested :
        With(GobEncode(m), LAMBDA bytes :
            /\ Len(bytes) = 8 * 6
            /\ \A i \in 1..(8 * 6) : bytes[i] \in 0..255
            /\ Numbers(bytes) = <<m.a, m.b, m.tx, m.c, m.d, m.ty>>
            /\ GobDecode(bytes) = m)

\* A Block was dragged from the origin to the Spawn: the third and the sixth
\* number of its encoding are its translation.
C30_MovedBlockEncoded ==
    /\ mode = "Select" /\ run = "running"
    /\ \E i \in Ids \ FreeIds(Cur) :
           /\ heap[i].kind = "block"
           /\ heap[i].T.tx = 78 /\ heap[i].T.ty = 90
           /\ GobEncode(heap[i].T)[8 * 3] = 78 /\ GobEncode(heap[i].T)[8 * 6] = 90
           /\ GobDecode(GobEncode(heap[i].T)) = heap[i].T

\* ---- deleted objects
\* The deletes of the frame: the selector Delete ran on, and whether its
\* object was found in the collection.
Deletes(r) == {[se |-> e[2], found |-> e[1] = "delete"] : e \in {x \in r.ev : x[1] \in {"delete", "delete_panic"}}}

\* C31: in no frame of the Select editor does Delete run on an object that is
\* not in its collection: found is never -1 and the frame does not crash in
\* Delete.
C31_DeleteFindsItsObject ==
    \A in \in SelInputs :
        Happens(in) /\ mode = "Select" =>
            \A d \in Deletes(Step(in)) :
                /\ d.found
                /\ Index(Collection(Cur, d.se), d.se.id) # -1
                /\ Step(in).run = "running"

\* C32: while the Select editor is active every selectable other than the
\* Spawn is an Art or a Block of the level.
C32_SelectablesAreInLevel ==
    mode = "Select" /\ run = "running" =>
        \A i \in 1..Len(sel.Selectables) :
            sel.Selectables[i] # SpawnSelector =>
                Index(Collection(Cur, sel.Selectables[i]), sel.Selectables[i].id) # -1

\* ---- the drag record
\* What MouseDrag(MouseButtonLeft) returns in the frame, after InputsUpdate.
DragReported(in) == MouseDragVal(InputsUpdate(Start(in), in), in)

\* The button goes down in the frame: it was up in the frame before.
PressBegins(in) == in.left /\ mdown = 0

\* C33: MouseDrag reports no motion while the button is up and none in the
\* first frame of a press, the first press or a later one, so the frame in
\* which an object is pressed does not move it.
C33_DragOnlyWhileHeld ==
    \A in \in SpawnInputs :
        Happens(in) /\ mode = "Select" =>
            /\ ~in.left => DragReported(in) = <<0, 0>>
            /\ PressBegins(in) => DragReported(in) = <<0, 0>>
            /\ PressBegins(in) => \A s \in Moved(Step(in)) : Transform(Step(in), s) = Transform(Cur, s)

\* ---- pressing the selection
\* The press lands in the current selection or on its rotation handle.
OnSelection(in) ==
    /\ sel.s # NoSel
    /\ Contains(Cursor(in), Transform(Cur, sel.s)) \/ HitHandle(Cursor(in), rotator(Cur))

\* The selectables under the cursor with a smaller diagonal than the
\* current selection.
SmallerUnder(in) ==
    {i \in Under(in) : Diagonal(Transform(Cur, sel.Selectables[i])) < Diagonal(Transform(Cur, sel.s))}

\* C34: a press that lands in the current selection or on its rotation handle
\* keeps the selection, whatever else is under the cursor; a press changes
\* the selection only when there was none or the press missed it.
C34_PressOnSelectionKeepsIt ==
    \A in \in SpawnInputs :
        Happens(in) /\ mode = "Select" /\ PressBegins(in) =>
            /\ OnSelection(in) => Step(in).run = "running" /\ Step(in).sel.s = sel.s
            /\ Step(in).sel.s # sel.s => sel.s = NoSel \/ ~OnSelection(in)

\* The Block was dragged over the Spawn, released and pressed again at the
\* centre of the Spawn: the Block, not the smaller Spawn, is the selection.
C34_BlockKeptOverSpawn ==
    /\ mode = "Select" /\ run = "running" /\ mdown # 0 /\ iframe >= 7
    /\ mdrag.pos = <<450, 150>>
    /\ l.Spawn = Vec(3 * PxPerUnit, 3 * PxPerUnit)
    /\ sel.s.k = "block" /\ sel.state = "selmoving"
    /\ Contains(<<90, 90>>, heap[sel.s.id].T)
    /\ Contains(<<90, 90>>, Transform(Cur, SpawnSelector))
    /\ Diagonal(Transform(Cur, SpawnSelector)) < Diagonal(heap[sel.s.id].T)

\* ---- nested updates
\* The handlers entered in the frame, Root.Update included.
Calls(r) == {e \in r.ev : e[1] = "call"}

\* C35: Root.Update returns in every frame, whatever keys are down: the chain
\* of nested calls it makes never grows without end.
C35_RootUpdateReturns ==
    \A in \in Inputs :
        run = "running" => Step(in).run # "overflow" /\ Step(in).depth < MaxNest

\* ---- scaling
\* The objects scaled in the frame.
Scaled(r) == {e[2] : e \in {x \in r.ev : x[1] = "scale"}}

\* The cursor's offset from the centre of the transform t, per axis.
FromCentre(in, t) == <<Cursor(in)[1] - t.tx, Cursor(in)[2] - t.ty>>

\* C36: a scale step divides by no zero and leaves the selected object with a
\* finite transform that can be inverted.
C36_ScaleStepIsGuarded ==
    \A in \in SpawnInputs :
        Happens(in) /\ mode = "Select" =>
            \A s \in Scaled(Step(in)) :
                /\ FromCentre(in, Transform(Cur, s))[1] # 0
                /\ FromCentre(in, Transform(Cur, s))[2] # 0
                /\ ~Transform(Step(in), s).nf
                /\ MxDet(Transform(Step(in), s)) # 0

\* The grabbed corner's offset from the centre of the transform t, doubled.
CornerFromCentre2(t, i) ==
    <<t.a * positions[i][1] + t.b * positions[i][2], t.c * positions[i][1] + t.d * positions[i][2]>>

Unrotated(t) == ~t.nf /\ t.b = 0 /\ t.c = 0

\* The extent of the unrotated transform t along the axis ax (1: x, 2: y).
Extent(t, ax) == IF ax = 1 THEN Abs(t.a) ELSE Abs(t.d)

\* C37: a scale step on an unrotated Art or Block makes the extent along an
\* axis larger when the cursor is farther from the centre than the grabbed
\* corner along that axis and smaller when it is closer, leaves the transform
\* as it was when the cursor is on the corner, and keeps the centre.
C37_ScaleFollowsCursor ==
    \A in \in SelInputs :
        Happens(in) /\ mode = "Select" =>
            \A s \in Scaled(Step(in)) :
                s # SpawnSelector /\ Unrotated(Transform(Cur, s)) =>
                    /\ ~Transform(Step(in), s).nf
                    /\ Transform(Step(in), s).tx = Transform(Cur, s).tx
                    /\ Transform(Step(in), s).ty = Transform(Cur, s).ty
                    /\ \A ax \in {1, 2} :
                           /\ 2 * Abs(FromCentre(in, Transform(Cur, s))[ax])
                                  > Abs(CornerFromCentre2(Transform(Cur, s), Step(in).sel.scalar)[ax])
                                  => Extent(Transform(Step(in), s), ax) > Extent(Transform(Cur, s), ax)
                           /\ 2 * Abs(FromCentre(in, Transform(Cur, s))[ax])
                                  < Abs(CornerFromCentre2(Transform(Cur, s), Step(in).sel.scalar)[ax])
                                  => Extent(Transform(Step(in), s), ax) < Extent(Transform(Cur, s), ax)
                    /\ (\A ax \in {1, 2} : 2 * FromCentre(in, Transform(Cur, s))[ax]
                                               = CornerFromCentre2(Transform(Cur, s), Step(in).sel.scalar)[ax])
                           => Transform(Step(in), s) = Transform(Cur, s)

\* ---- what a drag touches
\* Frames of the Select editor that move, rotate or scale.
DragFrame(in) ==
    /\ mode = "Select" /\ Happens(in) /\ in.left
    /\ \E e \in Step(in).ev : e[1] \in {"move", "rotate", "scale"}

\* C38: a frame that moves, rotates or scales changes no transform but that
\* of the selection: every other Art and Block keeps its transform, the Spawn
\* stays unless it is the selection, and the art and block lists keep their
\* elements in their order.
C38_DragChangesOnlySelection ==
    \A in \in SelInputs :
        DragFrame(in) =>
            /\ \A e \in Step(in).ev : e[1] \in {"move", "rotate", "scale"} => e[2] = Step(in).sel.s
            /\ \A i \in Ids \ FreeIds(Cur) : i # Step(in).sel.s.id => Step(in).heap[i] = heap[i]
            /\ Step(in).sel.s # SpawnSelector => Step(in).l.Spawn = l.Spawn
            /\ Step(in).l.Art = l.Art
            /\ Step(in).l.Blocks = l.Blocks

\* The Art was dragged while the Block, which lay on it, stayed where it was.
C38_ArtDraggedAlone ==
    /\ mode = "Select" /\ run = "running" /\ mdown # 0
    /\ sel.s.k = "art" /\ sel.state = "selmoving"
    /\ Len(l.Art) = 1 /\ Len(l.Blocks) = 1
    /\ heap[l.Art[1]].T.tx # 0
    /\ heap[l.Blocks[1]].T = MxIdentity
    /\ l.Spawn = Vec(0, 0)

\* ---- images
\* The image of the Art at path p is loaded: none is needed when there is no
\* such Art.
Loaded(path) == path = NoPath \/ path \in GoodImages

\* C39: while an editor is the active app, every Art of the art list has its
\* image, and so have the background art and the player art when present.
C39_DrawnArtHasImage ==
    mode \in EditorModes /\ run = "running" =>
        /\ \A i \in 1..Len(l.Art) : heap[l.Art[i]].kind = "art" /\ heap[l.Art[i]].img
        /\ Loaded(l.BGArt)
        /\ Loaded(l.PlayerArt)

\* The Art of the level loaded at startup was copied and pasted: the level
\* has the Art, its copy and the player art, each with its image.
C39_PastedArtHasImage ==
    /\ mode = "Select" /\ run = "running" /\ keys = {"Meta", "V"}
    /\ Len(l.Art) = 2 /\ sel.s = [k |-> "art", id |-> l.Art[2]]
    /\ heap[l.Art[1]].img /\ heap[l.Art[2]].img
    /\ l.PlayerArt = <<"p">>

====
